---- MODULE Spec2Model ----
(***************************************************************************)
(* Model of the rdfsolve client-side diagram engine:                       *)
(*   docs/ls_cloud.js         (class lsCloudVisualization)                 *)
(*   docs/d3_diagram_utils.js (class DiagramState, D3DiagramUtils)         *)
(*                                                                         *)
(* JavaScript strings that the code takes apart (URIs, labels, map keys,   *)
(* SPARQL variable names) are sequences of one-character strings, so that  *)
(* split/replace/startsWith/concatenation are computed, not assumed.       *)
(* Dataset names and endpoint URLs are only compared, and are plain        *)
(* strings; "" is the JavaScript empty (falsy) string.  A JavaScript Set   *)
(* or Map is a duplicate-free sequence in insertion order.                 *)
(***************************************************************************)
EXTENDS Integers, Sequences, FiniteSets, TLC

VARIABLES
    pc,                 \* position of the driver of the specification at hand
    selectedDatasets,   \* this.selectedDatasets (Set, insertion order)
    mergedData,         \* this.mergedData
    fullGraphData,      \* this.fullGraphData
    graphData,          \* this.graphData
    excludeOwl,         \* checked state of #ls-exclude-owl
    components,         \* last result of getDatasetComponents
    paths,              \* DiagramState.paths
    nextColorIndex,     \* DiagramState.nextColorIndex
    highlightedNodes,   \* DiagramState.highlightedNodes
    highlightedEdges,   \* DiagramState.highlightedEdges
    allPaths,           \* this.allPaths
    pathFindingMode,    \* this.pathFindingMode
    selectedNodes,      \* this.selectedNodes
    primaryEndpoint,    \* this.primaryEndpoint
    requireType,        \* checked state of #sparql-require-type
    query,              \* what generateSparqlFromPaths returned last
    sourcesData,        \* window.rdfsolve.sourcesData
    coverage,           \* the coverage files loadDatasetCoverage can fetch
    selectionChanges,   \* how often the dataset selection was changed
    pending,            \* renderCloud calls waiting on their Promise.all
    nodeFilter,         \* value of #ls-node-filter
    neighborDepth,      \* value of #ls-neighbor-depth
    diagram,            \* what the #ls-diagram container shows
    ret                 \* what the last call of a function under study returned

graphVars == << selectedDatasets, mergedData, fullGraphData, graphData,
                excludeOwl, components >>

stateVars == << paths, nextColorIndex, highlightedNodes, highlightedEdges >>

queryVars == << allPaths, pathFindingMode, selectedNodes, primaryEndpoint,
                requireType, query, sourcesData >>

cloudVars == << coverage, selectionChanges, pending, nodeFilter,
                neighborDepth, diagram >>

callVars == << ret >>

vars == << pc, graphVars, stateVars, queryVars, cloudVars, callVars >>

(***************************************************************************)
(* Bounds of the model                                                     *)
(***************************************************************************)
MaxRows == 2
MaxCompRows == 3

(***************************************************************************)
(* Generic helpers                                                         *)
(***************************************************************************)
Range(s) == { s[i] : i \in DOMAIN s }

SeqsUpTo(S, n) == UNION { [1..k -> S] : k \in 0..n }

Min(a, b) == IF a < b THEN a ELSE b

\* Set.prototype.add on an insertion-ordered set
SetAdd(s, x) == IF x \in Range(s) THEN s ELSE Append(s, x)

\* a || b on strings
Or(a, b) == IF a # <<>> THEN a ELSE b

\* String.prototype.startsWith
StartsWith(s, p) == Len(p) <= Len(s) /\ SubSeq(s, 1, Len(p)) = p

RECURSIVE LastSep(_, _)
LastSep(s, i) ==
    IF i = 0 THEN 0
    ELSE IF s[i] \in {"#", "/"} THEN i
    ELSE LastSep(s, i - 1)

\* uri.split(/[#\/]/).pop()
LastSegment(s) == SubSeq(s, LastSep(s, Len(s)) + 1, Len(s))

\* every ordered selection the dataset selector can hand over: the selected
\* options of a multi-select, in option order
RECURSIVE SubSeqsOf(_)
SubSeqsOf(s) ==
    IF s = <<>> THEN { <<>> }
    ELSE LET rest == SubSeqsOf(Tail(s))
         IN  rest \cup { <<Head(s)>> \o r : r \in rest }

(***************************************************************************)
(* Node exclusion (ls_cloud.js)                                            *)
(***************************************************************************)
excludedNamespaces ==
  << <<"h","t","t","p",":","/","/","w","w","w",".","w","3",".","o","r","g","/","1","9","9","9","/","0","2","/","2","2","-","r","d","f","-","s","y","n","t","a","x","-","n","s","#">>,
     <<"h","t","t","p",":","/","/","w","w","w",".","w","3",".","o","r","g","/","2","0","0","0","/","0","1","/","r","d","f","-","s","c","h","e","m","a","#">>,
     <<"h","t","t","p",":","/","/","w","w","w",".","w","3",".","o","r","g","/","2","0","0","2","/","0","7","/","o","w","l","#">>,
     <<"h","t","t","p",":","/","/","w","w","w",".","w","3",".","o","r","g","/","n","s","/","s","h","a","c","l","#">>,
     <<"h","t","t","p",":","/","/","w","w","w",".","w","3",".","o","r","g","/","2","0","0","1","/","X","M","L","S","c","h","e","m","a","#">> >>

excludedPrefixes ==
  << <<"r","d","f">>,
     <<"r","d","f","s">>,
     <<"o","w","l">>,
     <<"s","h">>,
     <<"s","p","a","r","q","l","s","e","r","v">>,
     <<"f","o","a","f">> >>

excludedLocalNames ==
  << <<"R","e","s","o","u","r","c","e">>,
     <<"C","l","a","s","s">>,
     <<"L","i","t","e","r","a","l">>,
     <<"P","r","o","p","e","r","t","y">>,
     <<"T","h","i","n","g">>,
     <<"N","a","m","e","d","I","n","d","i","v","i","d","u","a","l">>,
     <<"O","n","t","o","l","o","g","y">>,
     <<"O","b","j","e","c","t","P","r","o","p","e","r","t","y">>,
     <<"D","a","t","a","t","y","p","e","P","r","o","p","e","r","t","y">>,
     <<"A","n","n","o","t","a","t","i","o","n","P","r","o","p","e","r","t","y">>,
     <<"T","r","a","n","s","i","t","i","v","e","P","r","o","p","e","r","t","y">>,
     <<"S","y","m","m","e","t","r","i","c","P","r","o","p","e","r","t","y">>,
     <<"F","u","n","c","t","i","o","n","a","l","P","r","o","p","e","r","t","y">>,
     <<"I","n","v","e","r","s","e","F","u","n","c","t","i","o","n","a","l","P","r","o","p","e","r","t","y">>,
     <<"R","e","s","t","r","i","c","t","i","o","n">>,
     <<"A","l","l","D","i","f","f","e","r","e","n","t">>,
     <<"A","l","l","D","i","s","j","o","i","n","t","C","l","a","s","s","e","s">>,
     <<"A","l","l","D","i","s","j","o","i","n","t","P","r","o","p","e","r","t","i","e","s">> >>

isExcludedNode(uri, checked) ==
    IF uri = <<>> THEN TRUE
    ELSE IF ~checked THEN FALSE
    ELSE IF \E i \in DOMAIN excludedNamespaces :
                StartsWith(uri, excludedNamespaces[i]) THEN TRUE
    ELSE IF \E i \in DOMAIN excludedPrefixes :
                StartsWith(uri, excludedPrefixes[i] \o <<":">>) THEN TRUE
    ELSE \E i \in DOMAIN excludedLocalNames :
                LastSegment(uri) = excludedLocalNames[i]

\* getLocalName: last URI segment, cut to 20 characters (decodeURIComponent
\* changes nothing on the characters used here, none being "%")
getLocalName(uri) ==
    IF uri = <<>> THEN <<"U","n","k","n","o","w","n">>
    ELSE LET local == LastSegment(uri)
         IN  SubSeq(local, 1, Min(20, Len(local)))

(***************************************************************************)
(* Graph building (lsCloudVisualization.buildGraphData)                    *)
(***************************************************************************)
rowSubjectUri(row) ==
    Or(row.subject_uri, Or(row.subject_class, <<"U","n","k","n","o","w","n">>))

rowObjectUri(row) ==
    Or(row.object_uri, Or(row.object_class, <<"U","n","k","n","o","w","n">>))

rowPropertyUri(row) ==
    Or(row.property_uri, Or(row.property, <<"u","n","k","n","o","w","n">>))

HasNode(nodes, id) == \E i \in DOMAIN nodes : nodes[i].id = id

NodeIdx(nodes, id) == CHOOSE i \in DOMAIN nodes : nodes[i].id = id

\* an upsert that forgets the dataset of the row
upsertNodeNoDataset(nodes, uri, label, dataset, propertyLabel) ==
    LET ns == IF HasNode(nodes, uri) THEN nodes
              ELSE Append(nodes, [ id |-> uri, label |-> label,
                                   datasets |-> <<>>, properties |-> <<>>,
                                   inDegree |-> 0, outDegree |-> 0 ])
        i  == NodeIdx(ns, uri)
    IN  [ ns EXCEPT ![i].properties = SetAdd(@, propertyLabel) ]

\* nodeMap.set on first sight, then datasets.add and properties.add
upsertNode(nodes, uri, label, dataset, propertyLabel) ==
    LET ns == IF HasNode(nodes, uri) THEN nodes
              ELSE Append(nodes, [ id |-> uri, label |-> label,
                                   datasets |-> <<>>, properties |-> <<>>,
                                   inDegree |-> 0, outDegree |-> 0 ])
        i  == NodeIdx(ns, uri)
    IN  [ ns EXCEPT ![i].datasets   = SetAdd(@, dataset),
                    ![i].properties = SetAdd(@, propertyLabel) ]

linkKeyPair(subjectUri, propertyUri, objectUri) ==
    subjectUri \o <<"|","|","|">> \o objectUri

\* `${subjectUri}|||${propertyUri}|||${objectUri}`
linkKey(subjectUri, propertyUri, objectUri) ==
    subjectUri \o <<"|","|","|">> \o propertyUri \o <<"|","|","|">> \o objectUri

\* a bump that ignores which end of the link the node is
bumpDegreeOut(nodes, uri, field) ==
    IF ~HasNode(nodes, uri) THEN nodes
    ELSE LET i == NodeIdx(nodes, uri)
         IN  [ nodes EXCEPT ![i].outDegree = @ + 1 ]

\* sNode.outDegree = (sNode.outDegree || 0) + 1, and inDegree for oNode
bumpDegree(nodes, uri, field) ==
    IF ~HasNode(nodes, uri) THEN nodes
    ELSE LET i == NodeIdx(nodes, uri)
         IN  IF field = "out"
             THEN [ nodes EXCEPT ![i].outDegree = @ + 1 ]
             ELSE [ nodes EXCEPT ![i].inDegree = @ + 1 ]

addsLinkAlways(subjectExcluded, objectExcluded, subjectUri, objectUri) == TRUE

\* !subjectExcluded && !objectExcluded && subjectUri !== objectUri
addsLink(subjectExcluded, objectExcluded, subjectUri, objectUri) ==
    ~subjectExcluded /\ ~objectExcluded /\ subjectUri # objectUri

\* one iteration of patterns.forEach; acc = [nodes, links, keys], keys[i]
\* being the linkMap key under which links[i] is stored
foldRow(acc, row, checked) ==
    LET subjectUri    == rowSubjectUri(row)
        objectUri     == rowObjectUri(row)
        propertyUri   == rowPropertyUri(row)
        subjectLabel  == Or(row.subject_class, getLocalName(subjectUri))
        objectLabel   == Or(row.object_class, getLocalName(objectUri))
        propertyLabel == Or(row.property, getLocalName(propertyUri))
        dataset       == row.source_dataset
        subjectExcluded == isExcludedNode(subjectUri, checked)
        objectExcluded  == isExcludedNode(objectUri, checked)
        n1 == IF subjectExcluded THEN acc.nodes
              ELSE upsertNode(acc.nodes, subjectUri, subjectLabel,
                              dataset, propertyLabel)
        n2 == IF objectExcluded THEN n1
              ELSE upsertNode(n1, objectUri, objectLabel,
                              dataset, propertyLabel)
    IN  IF addsLink(subjectExcluded, objectExcluded, subjectUri, objectUri)
        THEN LET key == linkKey(subjectUri, propertyUri, objectUri)
                 has == key \in Range(acc.keys)
                 ls  == IF has THEN acc.links
                        ELSE Append(acc.links,
                                    [ source |-> subjectUri,
                                      target |-> objectUri,
                                      property |-> propertyUri,
                                      label |-> propertyLabel,
                                      datasets |-> <<>> ])
                 ks  == IF has THEN acc.keys ELSE Append(acc.keys, key)
                 k   == CHOOSE j \in DOMAIN ks : ks[j] = key
             IN  [ nodes |-> bumpDegree(bumpDegree(n2, subjectUri, "out"),
                                        objectUri, "in"),
                   links |-> [ ls EXCEPT ![k].datasets = SetAdd(@, dataset) ],
                   keys  |-> ks ]
        ELSE [ nodes |-> n2, links |-> acc.links, keys |-> acc.keys ]

RECURSIVE foldRows(_, _, _, _)
foldRows(acc, rows, i, checked) ==
    IF i > Len(rows) THEN acc
    ELSE foldRows(foldRow(acc, rows[i], checked), rows, i + 1, checked)

\* nodes get properties cut to 4 and degree = inDegree + outDegree
finishNode(n) ==
    [ id |-> n.id, label |-> n.label, datasets |-> n.datasets,
      properties |-> SubSeq(n.properties, 1, Min(4, Len(n.properties))),
      inDegree |-> n.inDegree, outDegree |-> n.outDegree,
      degree |-> n.inDegree + n.outDegree ]

buildGraphData(rows, checked) ==
    LET acc == foldRows([ nodes |-> <<>>, links |-> <<>>, keys |-> <<>> ],
                        rows, 1, checked)
    IN  [ nodes |-> [ i \in DOMAIN acc.nodes |-> finishNode(acc.nodes[i]) ],
          links |-> acc.links ]

EmptyGraph == [ nodes |-> <<>>, links |-> <<>> ]

(***************************************************************************)
(* Dataset components (lsCloudVisualization.getDatasetComponents)          *)
(***************************************************************************)
addEdgeOneWay(adj, a, b) ==
    IF a \notin DOMAIN adj \/ b \notin DOMAIN adj \/ a = b THEN adj
    ELSE [ adj EXCEPT ![a] = SetAdd(@, b) ]

addEdge(adj, a, b) ==
    IF a \notin DOMAIN adj \/ b \notin DOMAIN adj \/ a = b THEN adj
    ELSE [ adj EXCEPT ![a] = SetAdd(@, b), ![b] = SetAdd(@, a) ]

\* for (i ...) for (j = i + 1 ...) addEdge(ds[i], ds[j])
RECURSIVE addPairs(_, _, _, _)
addPairs(adj, ds, i, j) ==
    IF i > Len(ds) THEN adj
    ELSE IF j > Len(ds) THEN addPairs(adj, ds, i + 1, i + 2)
    ELSE addPairs(addEdge(adj, ds[i], ds[j]), ds, i, j + 1)

\* the forEach over nodes, then over links; items[k] is a datasets array
RECURSIVE addItems(_, _, _)
addItems(adj, items, k) ==
    IF k > Len(items) THEN adj
    ELSE LET InAdj(d) == d \in DOMAIN adj
             ds == SelectSeq(items[k], InAdj)
         IN  addItems(addPairs(adj, ds, 1, 2), items, k + 1)

datasetAdjacency(g, selected) ==
    LET items == [ i \in DOMAIN g.nodes |-> g.nodes[i].datasets ]
                 \o [ i \in DOMAIN g.links |-> g.links[i].datasets ]
    IN  addItems([ s \in Range(selected) |-> <<>> ], items, 1)

\* while (q.length) { cur = q.shift(); adj.get(cur).forEach(...) }
RECURSIVE bfsComponent(_, _, _, _)
bfsComponent(adj, q, visited, comp) ==
    IF q = <<>> THEN [ visited |-> visited, comp |-> comp ]
    ELSE LET cur == Head(q)
             Fresh(nb) == nb \notin visited
             new == SelectSeq(adj[cur], Fresh)
         IN  bfsComponent(adj, Tail(q) \o new, visited \cup Range(new),
                          comp \o new)

\* selected.forEach(s => { if (visited.has(s)) return; ... })
RECURSIVE collectComponents(_, _, _, _, _)
collectComponents(adj, selected, i, visited, comps) ==
    IF i > Len(selected) THEN comps
    ELSE IF selected[i] \in visited
         THEN collectComponents(adj, selected, i + 1, visited, comps)
         ELSE LET r == bfsComponent(adj, << selected[i] >>,
                                    visited \cup { selected[i] },
                                    << selected[i] >>)
              IN  collectComponents(adj, selected, i + 1, r.visited,
                                    Append(comps, r.comp))

getDatasetComponents(g, selected) ==
    IF Len(selected) <= 1 THEN << selected >>
    ELSE collectComponents(datasetAdjacency(g, selected), selected, 1,
                           {}, <<>>)

(***************************************************************************)
(* DiagramState (d3_diagram_utils.js)                                      *)
(***************************************************************************)
pathColors ==
    << "#4285f4", "#ea4335", "#34a853", "#fbbc04", "#9c27b0",
       "#00acc1", "#ff7043", "#7cb342", "#5c6bc0", "#f06292" >>

\* this.pathColors[colorIndex % this.pathColors.length]
getPathColor(colorIndex) == pathColors[(colorIndex % Len(pathColors)) + 1]

\* a JavaScript Map: a sequence of [key, value] entries in insertion order
MapHas(m, k) == \E i \in DOMAIN m : m[i].key = k

MapGet(m, k) == m[CHOOSE i \in DOMAIN m : m[i].key = k].value

\* Map.prototype.set: a present key keeps its place and takes the new value
MapSet(m, k, v) ==
    IF MapHas(m, k)
    THEN [ i \in DOMAIN m |-> IF m[i].key = k
                              THEN [ key |-> k, value |-> v ] ELSE m[i] ]
    ELSE Append(m, [ key |-> k, value |-> v ])

MapKeys(m) == { m[i].key : i \in DOMAIN m }

setNodeHighlightOverwrite(m, nodeId, value) == MapSet(m, nodeId, value)

\* if (!this.highlightedNodes.has(nodeId)) this.highlightedNodes.set(...)
setNodeHighlight(m, nodeId, value) ==
    IF MapHas(m, nodeId) THEN m ELSE MapSet(m, nodeId, value)

RECURSIVE addPathNodes(_, _, _, _)
addPathNodes(m, path, i, color) ==
    IF i > Len(path) THEN m
    ELSE addPathNodes(setNodeHighlight(m, path[i],
                                       [ color |-> color, isStart |-> (i = 1) ]),
                      path, i + 1, color)

pairKey(from, to) == from \o <<"|","|","|">> \o to

propKey(from, to, property) ==
    from \o <<"|","|","|">> \o to \o <<"|","|","|">> \o property

RECURSIVE addPathEdges(_, _, _, _, _)
addPathEdges(m, path, edges, i, color) ==
    IF i > Len(path) - 1 THEN m
    ELSE LET from == path[i]
             to   == path[i + 1]
             edgeColor == [ color |-> color ]
             m1 == MapSet(MapSet(m, pairKey(from, to), edgeColor),
                          pairKey(to, from), edgeColor)
             m2 == IF i \in DOMAIN edges /\ edges[i].property # <<>>
                   THEN MapSet(MapSet(m1, propKey(from, to, edges[i].property),
                                      edgeColor),
                               propKey(to, from, edges[i].property), edgeColor)
                   ELSE m1
         IN  addPathEdges(m2, path, edges, i + 1, color)

\* DiagramState._rebuildHighlightMaps: both maps cleared, then refilled from
\* this.paths in order; acc = [nodes, edges]
RECURSIVE rebuildFrom(_, _, _)
rebuildFrom(ps, k, acc) ==
    IF k > Len(ps) THEN acc
    ELSE IF Len(ps[k].path) = 0 THEN rebuildFrom(ps, k + 1, acc)
    ELSE LET color == getPathColor(ps[k].colorIndex)
         IN  rebuildFrom(ps, k + 1,
                 [ nodes |-> addPathNodes(acc.nodes, ps[k].path, 1, color),
                   edges |-> addPathEdges(acc.edges, ps[k].path, ps[k].edges,
                                          1, color) ])

rebuildHighlightMaps(ps) ==
    rebuildFrom(ps, 1, [ nodes |-> <<>>, edges |-> <<>> ])

\* what a highlight query returns when it finds nothing (null)
NoHighlight == [ color |-> "null" ]

\* this.highlightedEdges.get(key), undefined shown as NoHighlight
edgeMapGet(m, key) == IF MapHas(m, key) THEN MapGet(m, key) ELSE NoHighlight

\* DiagramState.getEdgeHighlight: the property-specific key first, then the
\* pair keys in both directions, then null
getEdgeHighlight(m, source, target, property) ==
    IF property # <<>> /\ MapHas(m, propKey(source, target, property))
    THEN MapGet(m, propKey(source, target, property))
    ELSE IF MapHas(m, pairKey(source, target))
         THEN MapGet(m, pairKey(source, target))
         ELSE edgeMapGet(m, pairKey(target, source))

\* the entries addPathGroup pushes for one group
groupEntriesFirstColour(pathDataArray, colorIndex, ids) ==
    [ i \in DOMAIN pathDataArray |->
        [ path |-> pathDataArray[i].path,
          edges |-> pathDataArray[i].edges,
          fromLabel |-> pathDataArray[i].fromLabel,
          toLabel |-> pathDataArray[i].toLabel,
          colorIndex |-> 0,
          pathNumber |-> i,
          totalPaths |-> Len(pathDataArray),
          id |-> ids[i] ] ]

\* the entries addPathGroup pushes
groupEntries(pathDataArray, colorIndex, ids) ==
    [ i \in DOMAIN pathDataArray |->
        [ path |-> pathDataArray[i].path,
          edges |-> pathDataArray[i].edges,
          fromLabel |-> pathDataArray[i].fromLabel,
          toLabel |-> pathDataArray[i].toLabel,
          colorIndex |-> colorIndex,
          pathNumber |-> i,
          totalPaths |-> Len(pathDataArray),
          id |-> ids[i] ] ]

\* Array.prototype.splice(index, 1), index counted from 0
spliceOut(s, index) ==
    SubSeq(s, 1, index) \o SubSeq(s, index + 2, Len(s))

(***************************************************************************)
(* Edge offsets (D3DiagramUtils.assignEdgeOffsets)                         *)
(***************************************************************************)
\* UTF-16 code units of the characters the ids of the model are made of
charCode ==
    ( "/" :> 47 ) @@ ( "1" :> 49 ) @@ ( "2" :> 50 ) @@ ( ":" :> 58 )
    @@ ( "A" :> 65 ) @@ ( "B" :> 66 ) @@ ( "C" :> 67 ) @@ ( "D" :> 68 )
    @@ ( "T" :> 84 ) @@ ( "e" :> 101 ) @@ ( "f" :> 102 ) @@ ( "l" :> 108 )
    @@ ( "o" :> 111 ) @@ ( "p" :> 112 ) @@ ( "w" :> 119 ) @@ ( "x" :> 120 )
    @@ ( "|" :> 124 )

\* a < b on JavaScript strings: code unit by code unit, a prefix first
RECURSIVE stringLess(_, _)
stringLess(a, b) ==
    IF b = <<>> THEN FALSE
    ELSE IF a = <<>> THEN TRUE
    ELSE IF charCode[Head(a)] # charCode[Head(b)]
         THEN charCode[Head(a)] < charCode[Head(b)]
    ELSE stringLess(Tail(a), Tail(b))

sortPairAsGiven(s, t) == << s, t >>

\* [s, t].sort()
sortPair(s, t) == IF stringLess(t, s) THEN << t, s >> ELSE << s, t >>

\* [s, t].sort().join('|||')
sortedPairKey(link) ==
    LET pair == sortPair(link.source, link.target)
    IN  pair[1] \o <<"|","|","|">> \o pair[2]

\* links.forEach: pairMap maps a key to the positions of its links in links
RECURSIVE groupByPair(_, _, _)
groupByPair(links, k, pairMap) ==
    IF k > Len(links) THEN pairMap
    ELSE LET key == sortedPairKey(links[k])
             m   == IF MapHas(pairMap, key) THEN pairMap
                    ELSE MapSet(pairMap, key, <<>>)
         IN  groupByPair(links, k + 1, MapSet(m, key, Append(MapGet(m, key), k)))

\* pairMap.forEach(group => group.forEach((link, idx) => ...)): the fields
\* written into the link at position k
assignEdgeOffsets(links) ==
    LET pairMap == groupByPair(links, 1, <<>>)
    IN  [ k \in DOMAIN links |->
            LET group == MapGet(pairMap, sortedPairKey(links[k]))
                count == Len(group)
                idx   == ( CHOOSE n \in DOMAIN group : group[n] = k ) - 1
            IN  [ source |-> links[k].source, target |-> links[k].target,
                  property |-> links[k].property, label |-> links[k].label,
                  datasets |-> links[k].datasets,
                  edgeOffset |-> idx - ( count \div 2 ),
                  edgeIndex |-> idx,
                  edgeCount |-> count ] ]

(***************************************************************************)
(* Path finding (lsCloudVisualization.findPath / findAllPaths /            *)
(* expandPathToEdgePaths)                                                  *)
(***************************************************************************)
\* adjacency.get(node) || []: for every link in order, adjacency.get(s)
\* gets t and adjacency.get(t) gets s, so parallel links repeat a neighbour
RECURSIVE neighborsOf(_, _, _)
neighborsOf(links, node, k) ==
    IF k > Len(links) THEN <<>>
    ELSE ( IF links[k].source = node THEN << links[k].target >> ELSE <<>> )
         \o ( IF links[k].target = node THEN << links[k].source >> ELSE <<>> )
         \o neighborsOf(links, node, k + 1)

\* the paths queue.push([...path, n]) adds for the neighbours not yet visited
extendPath(path, nbs, visited) ==
    LET Fresh(n) == n \notin visited
        new == SelectSeq(nbs, Fresh)
    IN  [ i \in DOMAIN new |-> Append(path, new[i]) ]

RECURSIVE bfsPathLifo(_, _, _, _)
bfsPathLifo(links, endId, queue, visited) ==
    IF queue = <<>> THEN <<>>
    ELSE LET path == Head(queue)
             node == path[Len(path)]
         IN  IF node = endId THEN path
             ELSE IF node \notin visited
                  THEN bfsPathLifo(links, endId,
                                   extendPath(path, neighborsOf(links, node, 1),
                                              visited \cup { node })
                                     \o Tail(queue),
                                   visited \cup { node })
                  ELSE bfsPathLifo(links, endId, Tail(queue), visited)

\* the while loop of findPath; <<>> stands for null
RECURSIVE bfsPath(_, _, _, _)
bfsPath(links, endId, queue, visited) ==
    IF queue = <<>> THEN <<>>
    ELSE LET path == Head(queue)
             node == path[Len(path)]
         IN  IF node = endId THEN path
             ELSE IF node \notin visited
                  THEN bfsPath(links, endId,
                               Tail(queue)
                                 \o extendPath(path, neighborsOf(links, node, 1),
                                               visited \cup { node }),
                               visited \cup { node })
                  ELSE bfsPath(links, endId, Tail(queue), visited)

findPath(g, startId, endId) == bfsPath(g.links, endId, << << startId >> >>, {})

\* the closure dfs of findAllPaths and its for loop over the neighbours;
\* cx = [links, endId, maxPaths, maxDepth]; acc.allPaths is the array
\* allPaths, acc.explored lists every call dfs(neighbor, path) of the loop
\* with the number of paths collected when it was made
RECURSIVE dfs(_, _, _, _, _)
RECURSIVE dfsLoop(_, _, _, _, _, _)
RECURSIVE dfsLoopNoBreak(_, _, _, _, _, _)
dfs(cx, currentId, path, visited, acc) ==
    IF Len(acc.allPaths) >= cx.maxPaths THEN acc
    ELSE IF Len(path) > cx.maxDepth THEN acc
    ELSE IF currentId = cx.endId
         THEN [ acc EXCEPT !.allPaths = Append(@, path) ]
    ELSE dfsLoop(cx, path, visited \cup { currentId },
                 neighborsOf(cx.links, currentId, 1), 1, acc)

dfsLoopNoBreak(cx, path, visited, nbs, k, acc) ==
    IF k > Len(nbs) THEN acc
    ELSE IF nbs[k] \in visited
         THEN dfsLoopNoBreak(cx, path, visited, nbs, k + 1, acc)
    ELSE LET called == [ acc EXCEPT !.explored =
                           Append(@, [ node |-> nbs[k],
                                       collected |-> Len(acc.allPaths) ]) ]
             a2 == dfs(cx, nbs[k], Append(path, nbs[k]), visited, called)
         IN  dfsLoopNoBreak(cx, path, visited, nbs, k + 1, a2)

dfsLoop(cx, path, visited, nbs, k, acc) ==
    IF k > Len(nbs) THEN acc
    ELSE IF nbs[k] \in visited THEN dfsLoop(cx, path, visited, nbs, k + 1, acc)
    ELSE LET called == [ acc EXCEPT !.explored =
                           Append(@, [ node |-> nbs[k],
                                       collected |-> Len(acc.allPaths) ]) ]
             a2 == dfs(cx, nbs[k], Append(path, nbs[k]), visited, called)
         IN  IF Len(a2.allPaths) >= cx.maxPaths THEN a2
             ELSE dfsLoop(cx, path, visited, nbs, k + 1, a2)

\* dfs(startId, [startId]) on the empty allPaths
dfsRun(g, startId, endId, maxPaths, maxDepth) ==
    dfs([ links |-> g.links, endId |-> endId, maxPaths |-> maxPaths,
          maxDepth |-> maxDepth ],
        startId, << startId >>, {}, [ allPaths |-> <<>>, explored |-> <<>> ])

findAllPaths(g, startId, endId, maxPaths, maxDepth) ==
    dfsRun(g, startId, endId, maxPaths, maxDepth).allPaths

\* { property: '?p' }, the stand-in when no link joins a pair
PlaceholderEdge ==
    [ source |-> <<>>, target |-> <<>>, property |-> <<"?","p">>,
      label |-> <<>>, datasets |-> <<>> ]

connectsForward(l, fromId, toId) ==
    l.source = fromId /\ l.target = toId

connects(l, fromId, toId) ==
    \/ l.source = fromId /\ l.target = toId
    \/ l.source = toId /\ l.target = fromId

\* edgeOptions[i]: the links joining nodePath[i] and nodePath[i + 1]
edgeOptionsAt(g, nodePath, i) ==
    LET Joins(l) == connects(l, nodePath[i], nodePath[i + 1])
        edges == SelectSeq(g.links, Joins)
    IN  IF Len(edges) > 0 THEN edges ELSE << PlaceholderEdge >>

\* generateCombinations: the Cartesian product, first pair slowest
RECURSIVE generateCombinations(_, _, _, _)
RECURSIVE combineOver(_, _, _, _, _)
generateCombinations(g, nodePath, index, currentEdges) ==
    IF index > Len(nodePath) - 1
    THEN << [ nodes |-> nodePath, edges |-> currentEdges ] >>
    ELSE combineOver(g, nodePath, index, currentEdges, 1)

combineOver(g, nodePath, index, currentEdges, k) ==
    LET opts == edgeOptionsAt(g, nodePath, index)
    IN  IF k > Len(opts) THEN <<>>
        ELSE generateCombinations(g, nodePath, index + 1,
                                  Append(currentEdges, opts[k]))
             \o combineOver(g, nodePath, index, currentEdges, k + 1)

expandPathToEdgePaths(g, nodePath) ==
    IF Len(nodePath) < 2 THEN <<>>
    ELSE generateCombinations(g, nodePath, 1, <<>>)

(***************************************************************************)
(* SPARQL generation (lsCloudVisualization.generateSparqlFromPaths)        *)
(***************************************************************************)
UpperChars == <<"A","B","C","D","E","F","G","H","I","J","K","L","M","N","O","P","Q","R","S","T","U","V","W","X","Y","Z">>

LowerChars == <<"a","b","c","d","e","f","g","h","i","j","k","l","m","n","o","p","q","r","s","t","u","v","w","x","y","z">>

DigitChars == <<"0","1","2","3","4","5","6","7","8","9">>

\* [a-zA-Z0-9_]
WordChars ==
    Range(UpperChars) \cup Range(LowerChars) \cup Range(DigitChars) \cup { "_" }

toLowerCase(c) ==
    IF \E i \in DOMAIN UpperChars : UpperChars[i] = c
    THEN LowerChars[CHOOSE i \in DOMAIN UpperChars : UpperChars[i] = c]
    ELSE c

\* decimal digits of a number, as template literals print it
RECURSIVE ToDigits(_)
ToDigits(n) ==
    IF n < 10 THEN << DigitChars[n + 1] >>
    ELSE ToDigits(n \div 10) \o << DigitChars[(n % 10) + 1] >>

RECURSIVE FirstColon(_, _)
FirstColon(s, i) ==
    IF i > Len(s) THEN 0
    ELSE IF s[i] = ":" THEN i
    ELSE FirstColon(s, i + 1)

getVarName(typeLabel) ==
    LET k  == FirstColon(typeLabel, 1)
        b1 == IF k >= 2 THEN SubSeq(typeLabel, k + 1, Len(typeLabel))
              ELSE typeLabel
        IsWord(c) == c \in WordChars
        b2 == SelectSeq(b1, IsWord)
        b3 == IF b2 = <<>> THEN <<"n","o","d","e">> ELSE b2
    IN  << toLowerCase(b3[1]) >> \o Tail(b3)

MapGetOr(m, k, d) == IF MapHas(m, k) THEN MapGet(m, k) ELSE d

\* the suffix rule of the path.forEach body: the base name the first time,
\* base name followed by the counter afterwards
varWithSuffix(varName, count) ==
    IF count = 0 THEN varName ELSE varName \o ToDigits(count)

nodeLabelOf(g, nodeId) ==
    IF HasNode(g.nodes, nodeId) THEN g.nodes[NodeIdx(g.nodes, nodeId)].label
    ELSE nodeId

\* path.forEach(nodeId => ...): st = [varCounter, nodeVarMap, selectVars]
RECURSIVE assignPathVars(_, _, _, _)
assignPathVars(g, path, k, st) ==
    IF k > Len(path) THEN st
    ELSE IF MapHas(st.nodeVarMap, path[k])
         THEN assignPathVars(g, path, k + 1, st)
         ELSE LET varName == getVarName(nodeLabelOf(g, path[k]))
                  count   == MapGetOr(st.varCounter, varName, 0)
                  v       == varWithSuffix(varName, count)
              IN  assignPathVars(g, path, k + 1,
                      [ varCounter |-> MapSet(st.varCounter, varName, count + 1),
                        nodeVarMap |-> MapSet(st.nodeVarMap, path[k], v),
                        selectVars |-> SetAdd(st.selectVars, v) ])

\* addPattern(endpoint, graph, pattern) on Map<endpoint, Map<graph|'', []>>
addPatternFirst(eps, endpoint, graph, pattern) ==
    LET graphMap == MapGetOr(eps, endpoint, <<>>)
        patterns == MapGetOr(graphMap, graph, <<>>)
    IN  MapSet(eps, endpoint, MapSet(graphMap, graph, << pattern >> \o patterns))

\* endpointPatterns.get(endpoint).get(graphKey).push(pattern)
addPattern(eps, endpoint, graph, pattern) ==
    LET graphMap == MapGetOr(eps, endpoint, <<>>)
        patterns == MapGetOr(graphMap, graph, <<>>)
    IN  MapSet(eps, endpoint, MapSet(graphMap, graph, Append(patterns, pattern)))

\* `?${v} a <${id}> .`
typePattern(v, id) ==
    <<"?">> \o v \o <<" ","a"," ","<">> \o id \o <<">"," ",".">>

\* `?${subjVar} ${predSparql} ?${objVar} .`
relPattern(subjVar, predSparql, objVar) ==
    <<"?">> \o subjVar \o <<" ">> \o predSparql \o <<" ","?">> \o objVar
        \o <<" ",".">>

\* predIri ? `<${predIri}>` : `?p${pathIdx}_${i}`
predSparqlOf(edge, pathIdx, i) ==
    IF edge.property # <<>> THEN <<"<">> \o edge.property \o <<">">>
    ELSE <<"?","p">> \o ToDigits(pathIdx) \o <<"_">> \o ToDigits(i)

\* getDatasetInfo: sources is window.rdfsolve.sourcesData
getDatasetInfo(sources, datasetName) ==
    IF datasetName \in DOMAIN sources
    THEN [ endpoint |-> sources[datasetName].endpointUrl,
           graph |-> IF sources[datasetName].useGraph
                     THEN sources[datasetName].graphUri ELSE "" ]
    ELSE [ endpoint |-> "", graph |-> "" ]

isForwardReversed(edge, fromId, toId) ==
    edge.source = toId /\ edge.target = fromId

\* const isForward = (edgeSource === fromId && edgeTarget === toId)
isForward(edge, fromId, toId) ==
    edge.source = fromId /\ edge.target = toId

\* storedEdges[i] || this.graphData.links.find(...); found = FALSE stands
\* for undefined
edgeFor(g, storedEdges, path, i) ==
    LET fromId == path[i]
        toId   == path[i + 1]
        hits   == { k \in DOMAIN g.links : connects(g.links[k], fromId, toId) }
    IN  IF i \in DOMAIN storedEdges
        THEN [ found |-> TRUE, stored |-> TRUE, edge |-> storedEdges[i] ]
        ELSE IF hits # {}
        THEN [ found |-> TRUE, stored |-> FALSE,
               edge |-> g.links[CHOOSE k \in hits : \A j \in hits : k <= j] ]
        ELSE [ found |-> FALSE, stored |-> FALSE, edge |-> PlaceholderEdge ]

\* one turn of the for loop over the consecutive pairs of a path;
\* cx = [g, sources, primaryEndpoint, requireType, pathIdx, path, edges,
\* nodeVarMap]; acc = [eps, steps], steps being the record kept for checking
edgeStep(cx, i, acc) ==
    LET fromId  == cx.path[i]
        toId    == cx.path[i + 1]
        fromVar == MapGet(cx.nodeVarMap, fromId)
        toVar   == MapGet(cx.nodeVarMap, toId)
        ef      == edgeFor(cx.g, cx.edges, cx.path, i)
        edge    == ef.edge
        fwd     == isForward(edge, fromId, toId)
        subjVar == IF fwd THEN fromVar ELSE toVar
        objVar  == IF fwd THEN toVar ELSE fromVar
        subjNodeId == IF fwd THEN fromId ELSE toId
        objNodeId  == IF fwd THEN toId ELSE fromId
        predSparql == predSparqlOf(edge, cx.pathIdx, i - 1)
        info == IF Len(edge.datasets) > 0
                THEN getDatasetInfo(cx.sources, edge.datasets[1])
                ELSE [ endpoint |-> cx.primaryEndpoint, graph |-> "" ]
        e1 == IF cx.requireType /\ HasNode(cx.g.nodes, subjNodeId)
              THEN addPattern(acc.eps, info.endpoint, info.graph,
                              typePattern(subjVar, subjNodeId))
              ELSE acc.eps
        e2 == IF cx.requireType /\ HasNode(cx.g.nodes, objNodeId)
              THEN addPattern(e1, info.endpoint, info.graph,
                              typePattern(objVar, objNodeId))
              ELSE e1
        pattern == relPattern(subjVar, predSparql, objVar)
    IN  IF ~ef.found THEN acc
        ELSE [ eps |-> addPattern(e2, info.endpoint, info.graph, pattern),
               steps |-> Append(acc.steps,
                    [ pathIdx |-> cx.pathIdx, i |-> i - 1, from |-> fromId,
                      to |-> toId, stored |-> ef.stored, edge |-> edge,
                      endpoint |-> info.endpoint, graph |-> info.graph,
                      subjNodeId |-> subjNodeId, objNodeId |-> objNodeId,
                      pattern |-> pattern ]) ]

RECURSIVE edgeSteps(_, _, _)
edgeSteps(cx, i, acc) ==
    IF i > Len(cx.path) - 1 THEN acc
    ELSE edgeSteps(cx, i + 1, edgeStep(cx, i, acc))

\* this.allPaths.forEach((pathData, pathIdx) => ...);
\* acc = [varCounter, selectVars, eps, steps, assigned]
RECURSIVE compilePaths(_, _, _)
compilePaths(cx, k, acc) ==
    IF k > Len(cx.allPaths) THEN acc
    ELSE IF Len(cx.allPaths[k].path) < 2 THEN compilePaths(cx, k + 1, acc)
    ELSE LET pd == cx.allPaths[k]
             st == assignPathVars(cx.g, pd.path, 1,
                       [ varCounter |-> acc.varCounter, nodeVarMap |-> <<>>,
                         selectVars |-> acc.selectVars ])
             r  == edgeSteps([ g |-> cx.g, sources |-> cx.sources,
                               primaryEndpoint |-> cx.primaryEndpoint,
                               requireType |-> cx.requireType,
                               pathIdx |-> k - 1, path |-> pd.path,
                               edges |-> pd.edges,
                               nodeVarMap |-> st.nodeVarMap ],
                             1, [ eps |-> acc.eps, steps |-> acc.steps ])
         IN  compilePaths(cx, k + 1,
                 [ varCounter |-> st.varCounter, selectVars |-> st.selectVars,
                   eps |-> r.eps, steps |-> r.steps,
                   assigned |-> acc.assigned
                       \o [ j \in DOMAIN st.nodeVarMap |->
                              [ pathIdx |-> k - 1,
                                nodeId |-> st.nodeVarMap[j].key,
                                var |-> st.nodeVarMap[j].value ] ] ])

\* [...new Set(patterns)]
RECURSIVE dedupePatterns(_)
dedupePatterns(patterns) ==
    IF patterns = <<>> THEN <<>>
    ELSE LET init == dedupePatterns(SubSeq(patterns, 1, Len(patterns) - 1))
         IN  SetAdd(init, patterns[Len(patterns)])

\* the groups of one endpoint: GRAPH-wrapped (graph # "") or bare
graphGroups(graphMap) ==
    [ j \in DOMAIN graphMap |->
        [ graph |-> graphMap[j].key,
          patterns |-> dedupePatterns(graphMap[j].value) ] ]

\* whereLines: one block per named endpoint, the first bare and the others
\* wrapped in SERVICE, then one bare block per graph of the '' endpoint
whereLines(eps) ==
    LET Named(e) == e.key # ""
        named == SelectSeq(eps, Named)
        first == [ j \in DOMAIN named |->
                     [ service |-> IF j > 1 THEN named[j].key ELSE "",
                       endpoint |-> named[j].key,
                       groups |-> graphGroups(named[j].value) ] ]
        noEp  == graphGroups(MapGetOr(eps, "", <<>>))
    IN  first \o [ j \in DOMAIN noEp |->
                     [ service |-> "", endpoint |-> "",
                       groups |-> << noEp[j] >> ] ]

noPathsNever(aps) == FALSE

\* !this.allPaths || this.allPaths.length === 0
noPaths(aps) == Len(aps) = 0

\* the query text, kept as its parts: SELECT DISTINCT select WHERE { where }
\* LIMIT limit; sentinel is the '# No paths selected' comment.  steps and
\* assigned record, for checking only, what each pair and each node of each
\* path was compiled to.
generateSparqlFromPaths(aps, g, sources, primary, reqType) ==
    IF noPaths(aps)
    THEN [ sentinel |-> TRUE, select |-> <<>>, where |-> <<>>, limit |-> 0,
           steps |-> <<>>, assigned |-> <<>> ]
    ELSE LET r == compilePaths([ allPaths |-> aps, g |-> g, sources |-> sources,
                                 primaryEndpoint |-> primary,
                                 requireType |-> reqType ],
                               1,
                               [ varCounter |-> <<>>, selectVars |-> <<>>,
                                 eps |-> <<>>, steps |-> <<>>,
                                 assigned |-> <<>> ])
         IN  [ sentinel |-> FALSE, select |-> r.selectVars,
               where |-> whereLines(r.eps), limit |-> 100,
               steps |-> r.steps, assigned |-> r.assigned ]

\* openSparqlModal: the endpoints of the selected datasets that have a source
\* entry, in selection order; the first non-empty one is the primary endpoint
RECURSIVE endpointOrder(_, _, _)
endpointOrder(sources, selected, k) ==
    IF k > Len(selected) THEN <<>>
    ELSE LET rest == endpointOrder(sources, selected, k + 1)
         IN  IF selected[k] \in DOMAIN sources
             THEN << sources[selected[k]].endpointUrl >>
                  \o SelectSeq(rest,
                         LAMBDA e : e # sources[selected[k]].endpointUrl)
             ELSE rest

primaryEndpointOf(sources, selected) ==
    LET NonEmpty(e) == e # ""
        endpoints == SelectSeq(endpointOrder(sources, selected, 1), NonEmpty)
    IN  IF endpoints = <<>> THEN "" ELSE endpoints[1]

(***************************************************************************)
(* Inputs of the graph-building specification                              *)
(***************************************************************************)
uA == <<"e","/","A">>
uB == <<"e","/","B">>
uC == <<"e","/","C">>
uT == <<"o","w","l",":","T">>
p1 == <<"e","/","p","1">>
p2 == <<"e","/","p","2">>

allDatasetNames == << "ds1", "ds2", "ds3" >>

MkRow(s, p, o, ds) ==
    [ subject_uri |-> s, subject_class |-> <<>>,
      object_uri |-> o, object_class |-> <<>>,
      property_uri |-> p, property |-> <<>>,
      source_dataset |-> ds ]

\* rows for edge identity: parallel, antiparallel, self-loop, excluded, and
\* rows whose subject or object cells are empty (parseCSV fills '' in)
BuildRows ==
    { MkRow(so[1], p, so[2], ds) :
        so \in { <<uA, uB>>, <<uB, uA>>, <<uA, uA>>, <<uA, uT>>, <<uT, uB>>,
                 << <<>>, uB >>, << uA, <<>> >> },
        p \in { p1, p2 }, ds \in { "ds1", "ds2" } }

\* rows for dataset connectivity: classes shared or not between datasets
CompRows ==
    { MkRow(so[1], p1, so[2], ds) :
        so \in { <<uA, uA>>, <<uA, uB>>, <<uB, uB>> },
        ds \in { "ds1", "ds2", "ds3" } }

\* before any call
NoRet == [ fn |-> "none" ]

StateDefaults ==
    /\ paths = <<>>
    /\ nextColorIndex = 0
    /\ highlightedNodes = <<>>
    /\ highlightedEdges = <<>>

\* the textarea before any query was generated
NoQuery ==
    [ sentinel |-> FALSE, select |-> <<>>, where |-> <<>>, limit |-> 0,
      steps |-> <<>>, assigned |-> <<>> ]

QueryDefaults ==
    /\ allPaths = <<>>
    /\ pathFindingMode = FALSE
    /\ selectedNodes = <<>>
    /\ primaryEndpoint = ""
    /\ requireType = TRUE
    /\ query = NoQuery
    /\ sourcesData = <<>>

\* the container before anything was written to it.  kind tells what the
\* container holds ("empty", "message" or "graph", the drawing of
\* graphData); message is the text the handler that wrote the container
\* passed to showMessage and names the dataset names that text lists.
EmptyDiagram == [ kind |-> "empty", message |-> "", names |-> <<>> ]

\* #ls-node-filter before populateNodeFilter: the "All nodes" option only
EmptyNodeFilter == [ value |-> <<>>, options |-> { <<>> } ]

CloudDefaults ==
    /\ coverage = <<>>
    /\ selectionChanges = 0
    /\ pending = <<>>
    /\ nodeFilter = EmptyNodeFilter
    /\ neighborDepth = 2
    /\ diagram = EmptyDiagram

InitGraph ==
    /\ pc = "input"
    /\ ret = NoRet
    /\ \/ /\ mergedData \in SeqsUpTo(BuildRows, MaxRows)
          /\ selectedDatasets = << "ds1", "ds2" >>
       \/ /\ mergedData \in SeqsUpTo(CompRows, MaxCompRows)
          /\ selectedDatasets \in SubSeqsOf(allDatasetNames)
    /\ excludeOwl \in BOOLEAN
    /\ fullGraphData = EmptyGraph
    /\ graphData = EmptyGraph
    /\ components = <<>>
    /\ StateDefaults
    /\ QueryDefaults
    /\ CloudDefaults

\* this.fullGraphData = this.buildGraphData(150)
BuildStep ==
    /\ pc = "input"
    /\ fullGraphData' = buildGraphData(mergedData, excludeOwl)
    /\ pc' = "built"
    /\ UNCHANGED << selectedDatasets, mergedData, graphData, excludeOwl,
                    components, stateVars, callVars, queryVars, cloudVars >>

\* const components = this.getDatasetComponents(this.fullGraphData)
ComponentsStep ==
    /\ pc = "built"
    /\ components' = getDatasetComponents(fullGraphData, selectedDatasets)
    /\ pc' = "components"
    /\ UNCHANGED << selectedDatasets, mergedData, fullGraphData, graphData,
                    excludeOwl, stateVars, callVars, queryVars, cloudVars >>

NextGraph == BuildStep \/ ComponentsStep

SpecGraph == InitGraph /\ [][NextGraph]_vars

(***************************************************************************)
(* DiagramState driven by its three mutators                               *)
(***************************************************************************)
MaxPaths == 3
MaxColorIndex == 3

MkLink(s, p, o, dss) ==
    [ source |-> s, target |-> o, property |-> p,
      label |-> getLocalName(p), datasets |-> dss ]

MkPathData(path, edges) ==
    [ path |-> path, edges |-> edges,
      fromLabel |-> IF path = <<>> THEN <<>> ELSE getLocalName(path[1]),
      toLabel |-> IF path = <<>> THEN <<>> ELSE getLocalName(path[Len(path)]) ]

\* groups handed to addPathGroup: one path; the two parallel edges of one
\* pair; a path that walks A->B backwards; a path without edge objects; a
\* path with no node
PathGroups ==
    { << MkPathData(<<uA, uB>>, << MkLink(uA, p1, uB, <<"ds1">>) >>) >>,
      << MkPathData(<<uA, uB>>, << MkLink(uA, p1, uB, <<"ds1">>) >>),
         MkPathData(<<uA, uB>>, << MkLink(uA, p2, uB, <<"ds1">>) >>) >>,
      << MkPathData(<<uB, uA, uC>>, << MkLink(uA, p1, uB, <<"ds1">>),
                                       MkLink(uA, p1, uC, <<"ds2">>) >>) >>,
      << MkPathData(<<uC, uA>>, <<>>) >>,
      << MkPathData(<<>>, <<>>) >>,
      <<>> }

\* what _generateId may return
IdChoices == { "p_1", "p_2" }

GraphDefaults ==
    /\ selectedDatasets = <<>>
    /\ mergedData = <<>>
    /\ fullGraphData = EmptyGraph
    /\ graphData = EmptyGraph
    /\ excludeOwl = FALSE
    /\ components = <<>>

\* new DiagramState()
InitState ==
    /\ pc = "constructor"
    /\ ret = NoRet
    /\ paths = <<>>
    /\ nextColorIndex = 0
    /\ highlightedNodes = <<>>
    /\ highlightedEdges = <<>>
    /\ GraphDefaults
    /\ QueryDefaults
    /\ CloudDefaults

addPathGroup(pathDataArray, ids) ==
    /\ Len(paths) + Len(pathDataArray) <= MaxPaths
    /\ nextColorIndex < MaxColorIndex
    /\ pc' = "addPathGroup"
    /\ IF Len(pathDataArray) = 0
       THEN UNCHANGED << paths, nextColorIndex, highlightedNodes,
                         highlightedEdges >>
       ELSE LET ps == paths \o groupEntries(pathDataArray, nextColorIndex, ids)
                hl == rebuildHighlightMaps(ps)
            IN  /\ nextColorIndex' = nextColorIndex + 1
                /\ paths' = ps
                /\ highlightedNodes' = hl.nodes
                /\ highlightedEdges' = hl.edges
    /\ ret' = [ fn |-> "addPathGroup", pathDataArray |-> pathDataArray,
                value |-> IF Len(pathDataArray) = 0 THEN -1
                          ELSE nextColorIndex ]
    /\ UNCHANGED << graphVars, queryVars, cloudVars >>

removePath(index) ==
    /\ pc' = "removePath"
    /\ IF index < 0 \/ index >= Len(paths)
       THEN UNCHANGED << paths, highlightedNodes, highlightedEdges >>
       ELSE LET ps == spliceOut(paths, index)
                hl == rebuildHighlightMaps(ps)
            IN  /\ paths' = ps
                /\ highlightedNodes' = hl.nodes
                /\ highlightedEdges' = hl.edges
    /\ UNCHANGED nextColorIndex
    /\ ret' = NoRet
    /\ UNCHANGED << graphVars, queryVars, cloudVars >>

clearPaths ==
    /\ pc' = "clearPaths"
    /\ paths' = <<>>
    /\ nextColorIndex' = 0
    /\ highlightedNodes' = <<>>
    /\ highlightedEdges' = <<>>
    /\ ret' = NoRet
    /\ UNCHANGED << graphVars, queryVars, cloudVars >>

\* a drawing routine asks for the highlight of an edge; property <<>> is
\* the call without property
GetEdgeHighlight ==
    \E st \in { << uA, uB >>, << uB, uC >> } :
    \E property \in { <<>>, p1, p2 } :
      LET source == st[1]
          target == st[2]
      IN
        /\ pc' = "getEdgeHighlight"
        /\ ret' = [ fn |-> "getEdgeHighlight", source |-> source,
                    target |-> target, property |-> property,
                    value |-> getEdgeHighlight(highlightedEdges, source,
                                               target, property) ]
        /\ UNCHANGED << stateVars, graphVars, queryVars, cloudVars >>

AddPathGroup ==
    \E g \in PathGroups : \E ids \in [ DOMAIN g -> IdChoices ] :
        addPathGroup(g, ids)

RemovePath == \E index \in -1..MaxPaths : removePath(index)

ClearPaths == clearPaths

NextState == AddPathGroup \/ RemovePath \/ ClearPaths \/ GetEdgeHighlight

SpecState == InitState /\ [][NextState]_vars

(***************************************************************************)
(* Path selection and SPARQL generation over a rendered graph              *)
(***************************************************************************)
MaxAllPaths == 2

uA1 == <<"e","/","A","1">>
fA == <<"f","/","A">>

MkClassRow(s, sClass, p, o, oClass, ds) ==
    [ subject_uri |-> s, subject_class |-> sClass,
      object_uri |-> o, object_class |-> oClass,
      property_uri |-> p, property |-> <<>>,
      source_dataset |-> ds ]

MkSource(endpointUrl, graphUri, useGraph) ==
    [ endpointUrl |-> endpointUrl, graphUri |-> graphUri,
      useGraph |-> useGraph ]

\* the rendered selections the queries are generated for: two datasets on
\* two endpoints with a parallel pair A->B and an edge C->B stored against
\* the walk from A to C; one dataset whose class labels share a base name;
\* three datasets, two of them behind one endpoint and one without a source
QueryWorlds ==
    { [ selected |-> << "ds1", "ds2" >>,
        rows |-> << MkRow(uA, p1, uB, "ds1"), MkRow(uA, p2, uB, "ds1"),
                    MkRow(uC, p1, uB, "ds2") >>,
        sources |-> ( "ds1" :> MkSource("ep1", "", FALSE) )
                    @@ ( "ds2" :> MkSource("ep2", "g2", TRUE) ) ],
      [ selected |-> << "ds1" >>,
        rows |-> << MkRow(uA, p1, uA1, "ds1"),
                    MkClassRow(uA1, <<>>, p1, fA, <<"x",":","A">>, "ds1") >>,
        sources |-> ( "ds1" :> MkSource("ep1", "", FALSE) ) ],
      [ selected |-> << "ds1", "ds2", "ds3" >>,
        rows |-> << MkRow(uA, p1, uB, "ds1"), MkRow(uA, p1, uB, "ds2"),
                    MkRow(uB, p1, uC, "ds3") >>,
        sources |-> ( "ds1" :> MkSource("ep1", "g1", TRUE) )
                    @@ ( "ds2" :> MkSource("ep1", "", FALSE) ) ] }

\* the page after renderCloud has drawn a connected selection.  pc tells
\* whether #sparql-modal is shown: the modal lies over the page, so the
\* page's controls are used while it is hidden and the modal's while it is
\* shown.
InitQuery ==
    /\ pc = "page"
    /\ ret = NoRet
    /\ \E w \in QueryWorlds :
          /\ selectedDatasets = w.selected
          /\ mergedData = w.rows
          /\ fullGraphData = buildGraphData(w.rows, FALSE)
          /\ graphData = buildGraphData(w.rows, FALSE)
          /\ sourcesData = w.sources
    /\ excludeOwl = FALSE
    /\ components = <<>>
    /\ allPaths = <<>>
    /\ pathFindingMode = FALSE
    /\ selectedNodes = <<>>
    /\ primaryEndpoint = ""
    /\ requireType \in BOOLEAN
    /\ query = NoQuery
    /\ StateDefaults
    /\ CloudDefaults

NodeIds(g) == { g.nodes[i].id : i \in DOMAIN g.nodes }

\* Math.max(...this.allPaths.map(p => p.colorIndex || 0)); -1 stands for
\* the undefined colorIndex of a bare node array
RECURSIVE maxColorIndex(_)
maxColorIndex(aps) ==
    IF aps = <<>> THEN 0
    ELSE LET c == IF Head(aps).colorIndex = -1 THEN 0 ELSE Head(aps).colorIndex
             m == maxColorIndex(Tail(aps))
         IN  IF c > m THEN c ELSE m

RECURSIVE expandAll(_, _)
expandAll(g, nodePaths) ==
    IF nodePaths = <<>> THEN <<>>
    ELSE expandPathToEdgePaths(g, Head(nodePaths))
         \o expandAll(g, Tail(nodePaths))

\* the entries findPathFromInputs would push for the From and To inputs
expandedPathsFor(fromId, toId, shortestOnly, maxDepth) ==
    LET shortestPath == findPath(graphData, fromId, toId)
        nodePaths == IF shortestOnly
                     THEN IF shortestPath # <<>> THEN << shortestPath >>
                          ELSE <<>>
                     ELSE findAllPaths(graphData, fromId, toId, 50, maxDepth)
    IN  expandAll(graphData, nodePaths)

findPathFromInputs(fromId, toId, shortestOnly, maxDepth) ==
    /\ pc # "modal"
    /\ pc' = "page"
    /\ IF fromId = <<>> \/ toId = <<>> \/ fromId = toId
       THEN UNCHANGED allPaths
       ELSE LET expandedPaths ==
                    expandedPathsFor(fromId, toId, shortestOnly, maxDepth)
                colorIndex == IF Len(allPaths) > 0
                              THEN maxColorIndex(allPaths) + 1 ELSE 0
            IN  /\ Len(allPaths) + Len(expandedPaths) <= MaxAllPaths
                /\ colorIndex < MaxColorIndex
                /\ allPaths' = allPaths \o
                     [ i \in DOMAIN expandedPaths |->
                         [ path |-> expandedPaths[i].nodes,
                           edges |-> expandedPaths[i].edges,
                           fromLabel |-> nodeLabelOf(graphData, fromId),
                           toLabel |-> nodeLabelOf(graphData, toId),
                           colorIndex |-> colorIndex,
                           pathNumber |-> i,
                           totalPaths |-> Len(expandedPaths),
                           isArray |-> FALSE ] ]
    /\ UNCHANGED << graphVars, stateVars, callVars, pathFindingMode, selectedNodes,
                    primaryEndpoint, requireType, query, sourcesData,
                    cloudVars >>

\* a path pushed by handleNodeClick is the bare node array findPath returns
BarePath(path) ==
    [ path |-> path, edges |-> <<>>, fromLabel |-> <<>>, toLabel |-> <<>>,
      colorIndex |-> -1, pathNumber |-> 0, totalPaths |-> 0,
      isArray |-> TRUE ]

togglePathFindingMode ==
    /\ pc = "page"
    /\ pc' = "page"
    /\ pathFindingMode' = ~pathFindingMode
    /\ selectedNodes' = <<>>
    /\ UNCHANGED << graphVars, stateVars, callVars, allPaths, primaryEndpoint,
                    requireType, query, sourcesData, cloudVars >>

startAddPath ==
    /\ pc = "page"
    /\ pc' = "page"
    /\ pathFindingMode' = TRUE
    /\ selectedNodes' = <<>>
    /\ UNCHANGED << graphVars, stateVars, callVars, allPaths, primaryEndpoint,
                    requireType, query, sourcesData, cloudVars >>

handleNodeClick(nodeId) ==
    /\ pc = "page"
    /\ pc' = "page"
    /\ IF ~pathFindingMode
       THEN UNCHANGED << allPaths, pathFindingMode, selectedNodes >>
       ELSE IF Len(selectedNodes) = 0
       THEN /\ selectedNodes' = << nodeId >>
            /\ UNCHANGED << allPaths, pathFindingMode >>
       ELSE IF selectedNodes[1] # nodeId
       THEN LET path == findPath(graphData, selectedNodes[1], nodeId)
            IN  /\ path # <<>> => Len(allPaths) < MaxAllPaths
                /\ allPaths' = IF path # <<>>
                               THEN Append(allPaths, BarePath(path))
                               ELSE allPaths
                /\ selectedNodes' = <<>>
                /\ pathFindingMode' = FALSE
       ELSE UNCHANGED << allPaths, pathFindingMode, selectedNodes >>
    /\ UNCHANGED << graphVars, stateVars, callVars, primaryEndpoint, requireType,
                    query, sourcesData, cloudVars >>

clearAllPaths ==
    /\ pc # "modal"
    /\ pc' = "page"
    /\ allPaths' = <<>>
    /\ UNCHANGED << graphVars, stateVars, callVars, pathFindingMode, selectedNodes,
                    primaryEndpoint, requireType, query, sourcesData,
                    cloudVars >>

\* lsCloudVisualization.removePath(index)
removePathAt(index) ==
    /\ pc # "modal"
    /\ pc' = "page"
    /\ IF index >= 0 /\ index < Len(allPaths)
       THEN allPaths' = spliceOut(allPaths, index)
       ELSE UNCHANGED allPaths
    /\ UNCHANGED << graphVars, stateVars, callVars, pathFindingMode, selectedNodes,
                    primaryEndpoint, requireType, query, sourcesData,
                    cloudVars >>

openSparqlModal ==
    LET primary == primaryEndpointOf(sourcesData, selectedDatasets)
    IN  /\ pc # "modal"
        /\ pc' = "modal"
        /\ primaryEndpoint' = primary
        /\ query' = generateSparqlFromPaths(allPaths, graphData, sourcesData,
                                            primary, requireType)
        /\ UNCHANGED << graphVars, stateVars, callVars, allPaths, pathFindingMode,
                        selectedNodes, requireType, sourcesData, cloudVars >>

\* the change handler of #sparql-require-type; the box is part of the modal
regenerateSparqlQuery ==
    /\ pc = "modal"
    /\ pc' = "modal"
    /\ requireType' = ~requireType
    /\ query' = generateSparqlFromPaths(allPaths, graphData, sourcesData,
                                        primaryEndpoint, ~requireType)
    /\ UNCHANGED << graphVars, stateVars, callVars, allPaths, pathFindingMode,
                    selectedNodes, primaryEndpoint, sourcesData, cloudVars >>

\* the close button, the backdrop and Escape hide the modal.  query is the
\* text of the shown modal: the hidden textarea is read by nothing and is
\* written again by openSparqlModal before it is shown.
closeSparqlModal ==
    /\ pc = "modal"
    /\ pc' = "page"
    /\ query' = NoQuery
    /\ UNCHANGED << graphVars, stateVars, callVars, allPaths, pathFindingMode,
                    selectedNodes, primaryEndpoint, requireType, sourcesData,
                    cloudVars >>

FindPathFromInputs ==
    \E fromId \in NodeIds(graphData) \cup { <<>> } :
      \E toId \in NodeIds(graphData) \cup { <<>> } :
        \E shortestOnly \in BOOLEAN : \E maxDepth \in { 1, 5 } :
            findPathFromInputs(fromId, toId, shortestOnly, maxDepth)

TogglePathFindingMode == togglePathFindingMode

StartAddPath == startAddPath

HandleNodeClick == \E nodeId \in NodeIds(graphData) : handleNodeClick(nodeId)

ClearAllPaths == clearAllPaths

RemovePathAt == \E index \in 0..MaxAllPaths : removePathAt(index)

OpenSparqlModal == openSparqlModal

RegenerateSparqlQuery == regenerateSparqlQuery

CloseSparqlModal == closeSparqlModal

NextQuery ==
    \/ FindPathFromInputs
    \/ TogglePathFindingMode
    \/ StartAddPath
    \/ HandleNodeClick
    \/ ClearAllPaths
    \/ RemovePathAt
    \/ OpenSparqlModal
    \/ RegenerateSparqlQuery
    \/ CloseSparqlModal

SpecQuery == InitQuery /\ [][NextQuery]_vars

(***************************************************************************)
(* The cloud page: dataset selection, renderCloud, the exclude-OWL box,    *)
(* the node filter and the neighbourhood depth                             *)
(***************************************************************************)
MaxPending == 2
MaxSelectionChanges == 2

uD == <<"e","/","D">>

\* the coverage files behind the three datasets; <<>> is a dataset whose
\* file is missing or empty.  ds1 and ds2 share nothing and ds3 bridges
\* them; ds1 and ds2 share the pair A, B and ds3 is apart; ds1 and ds2 meet
\* only in the class owl:T.
CoverageWorlds ==
    { ( "ds1" :> << MkRow(uA, p1, uB, "ds1") >> )
        @@ ( "ds2" :> << MkRow(uC, p1, uD, "ds2") >> )
        @@ ( "ds3" :> << MkRow(uB, p1, uC, "ds3") >> ),
      ( "ds1" :> << MkRow(uA, p1, uB, "ds1") >> )
        @@ ( "ds2" :> << MkRow(uA, p2, uB, "ds2") >> )
        @@ ( "ds3" :> << MkRow(uC, p1, uD, "ds3") >> ),
      ( "ds1" :> << MkRow(uA, p1, uT, "ds1") >> )
        @@ ( "ds2" :> << MkRow(uT, p1, uB, "ds2") >> )
        @@ ( "ds3" :> <<>> ) }

\* new lsCloudVisualization() and init().  pc is "renderCloud" when the
\* handler that ran last is a renderCloud that got as far as computing the
\* dataset components.
Init ==
    /\ pc = "page"
    /\ ret = NoRet
    /\ coverage \in CoverageWorlds
    /\ selectionChanges = 0
    /\ selectedDatasets = <<>>
    /\ mergedData = <<>>
    /\ fullGraphData = EmptyGraph
    /\ graphData = EmptyGraph
    /\ excludeOwl \in BOOLEAN
    /\ components = <<>>
    /\ pending = <<>>
    /\ nodeFilter = EmptyNodeFilter
    /\ neighborDepth = 2
    /\ diagram = EmptyDiagram
    /\ StateDefaults
    /\ QueryDefaults

showMessage(msg, names) == [ kind |-> "message", message |-> msg, names |-> names ]

\* renderDiagram after the container held d: the container is emptied and
\* the graph drawn into it, or 'No nodes to display.' shown
renderDiagram(g, d) ==
    IF Len(g.nodes) = 0 THEN showMessage("No nodes to display.", <<>>)
    ELSE [ kind |-> "graph", message |-> d.message, names |-> d.names ]

\* populateNodeFilter: the options are rewritten, which selects "All nodes"
populateNodeFilter(full) ==
    [ value |-> <<>>, options |-> { <<>> } \cup NodeIds(full) ]

\* components.sort((a, b) => b.size - a.size)[0]: the first of the largest
largestOf(comps) ==
    LET k == CHOOSE i \in DOMAIN comps :
                 /\ \A j \in DOMAIN comps : Len(comps[j]) <= Len(comps[i])
                 /\ \A j \in 1..(i - 1) : Len(comps[j]) < Len(comps[i])
    IN  comps[k]

someIn(datasets, allowed) == \E i \in DOMAIN datasets : datasets[i] \in Range(allowed)

filterToDatasets(full, allowed) ==
    LET KeepNode(n) == someIn(n.datasets, allowed)
        KeepLink(l) == someIn(l.datasets, allowed)
    IN  [ nodes |-> SelectSeq(full.nodes, KeepNode),
          links |-> SelectSeq(full.links, KeepLink) ]

NotConnectedMsg == "Selected datasets are not connected"

SplitMsg == "rendering largest connected group"

\* what renderCloud and the exclude-OWL handler do once fullGraphData is
\* rebuilt: the new graphData, node filter and container
showComponents(full, comps) ==
    IF Len(comps) > 1
    THEN IF Len(largestOf(comps)) <= 1
         THEN [ graphData |-> graphData, nodeFilter |-> nodeFilter,
                diagram |-> showMessage(NotConnectedMsg, <<>>) ]
         ELSE LET g == filterToDatasets(full, largestOf(comps))
              IN  [ graphData |-> g,
                    nodeFilter |-> populateNodeFilter(full),
                    diagram |-> renderDiagram(g,
                                    showMessage(SplitMsg, largestOf(comps))) ]
    ELSE [ graphData |-> full,
           nodeFilter |-> populateNodeFilter(full),
           diagram |-> renderDiagram(full, EmptyDiagram) ]

\* the rows Promise.all delivers for a selection, tagged and merged
RECURSIVE mergeResults(_, _)
mergeResults(files, selected) ==
    IF selected = <<>> THEN <<>>
    ELSE files[Head(selected)] \o mergeResults(files, Tail(selected))

\* the nodes within maxDepth links of startId in fullGraphData
RECURSIVE visitedWithin(_, _, _, _)
visitedWithin(links, frontier, visited, depth) ==
    IF depth = 0 \/ frontier = {} THEN visited
    ELSE LET next == { n \in UNION { Range(neighborsOf(links, id, 1)) :
                                       id \in frontier } : n \notin visited }
         IN  visitedWithin(links, next, visited \cup next, depth - 1)

getNeighborhood(full, startId, maxDepth) ==
    IF maxDepth = 0 THEN full
    ELSE LET visited == visitedWithin(full.links, { startId }, { startId },
                                      maxDepth)
             KeepNode(n) == n.id \in visited
             KeepLink(l) == l.source \in visited /\ l.target \in visited
         IN  [ nodes |-> SelectSeq(full.nodes, KeepNode),
               links |-> SelectSeq(full.links, KeepLink) ]

\* the changed.bs.select handler of #ls-dataset-select
ChangeSelection ==
    \E sel \in SubSeqsOf(allDatasetNames) :
        /\ sel # selectedDatasets
        /\ selectionChanges < MaxSelectionChanges
        /\ selectionChanges' = selectionChanges + 1
        /\ pc' = "page"
        /\ selectedDatasets' = sel
        /\ UNCHANGED << mergedData, fullGraphData, graphData, excludeOwl,
                        components, stateVars, callVars, queryVars, coverage, pending,
                        nodeFilter, neighborDepth, diagram >>

\* renderCloud up to its await
RenderCloudStart ==
    /\ pc' = "page"
    /\ IF Len(selectedDatasets) = 0
       THEN /\ diagram' = showMessage("Please select at least one dataset.", <<>>)
            /\ UNCHANGED pending
       ELSE /\ Len(pending) < MaxPending
            /\ diagram' = showMessage("Loading schema data...", <<>>)
            /\ pending' = Append(pending, selectedDatasets)
    /\ UNCHANGED << graphVars, stateVars, callVars, queryVars, coverage,
                    selectionChanges, nodeFilter, neighborDepth >>

\* renderCloud from its await on, for any of the calls in flight
RenderCloudFinish ==
    \E k \in DOMAIN pending :
        LET rows  == mergeResults(coverage, pending[k])
            full  == buildGraphData(rows, excludeOwl)
            comps == getDatasetComponents(full, selectedDatasets)
            shown == showComponents(full, comps)
        IN  /\ pending' = spliceOut(pending, k - 1)
            /\ mergedData' = rows
            /\ IF Len(rows) = 0
               THEN /\ pc' = "page"
                    /\ diagram' = showMessage("No schema data found.", <<>>)
                    /\ UNCHANGED << fullGraphData, components, graphData,
                                    nodeFilter >>
               ELSE /\ pc' = "renderCloud"
                    /\ fullGraphData' = full
                    /\ components' = comps
                    /\ graphData' = shown.graphData
                    /\ nodeFilter' = shown.nodeFilter
                    /\ diagram' = shown.diagram
            /\ UNCHANGED << selectedDatasets, excludeOwl, stateVars, callVars,
                            queryVars, coverage, selectionChanges,
                            neighborDepth >>

\* the change handler of #ls-exclude-owl
ToggleExcludeOwl ==
    LET full  == buildGraphData(mergedData, ~excludeOwl)
        comps == getDatasetComponents(full, selectedDatasets)
        shown == showComponents(full, comps)
    IN  /\ pc' = "page"
        /\ excludeOwl' = ~excludeOwl
        /\ IF Len(mergedData) = 0
           THEN UNCHANGED << fullGraphData, components, graphData,
                             nodeFilter, diagram >>
           ELSE /\ fullGraphData' = full
                /\ components' = comps
                /\ graphData' = shown.graphData
                /\ nodeFilter' = shown.nodeFilter
                /\ diagram' = shown.diagram
        /\ UNCHANGED << selectedDatasets, mergedData, stateVars, callVars, queryVars,
                        coverage, selectionChanges, pending, neighborDepth >>

filterByNode(nodeId, depth) ==
    LET g == IF nodeId = <<>> THEN fullGraphData
             ELSE getNeighborhood(fullGraphData, nodeId, depth)
    IN  /\ graphData' = g
        /\ diagram' = renderDiagram(g, EmptyDiagram)

\* the change handler of #ls-node-filter: another option is chosen
FilterByNode ==
    \E nodeId \in nodeFilter.options :
        /\ nodeId # nodeFilter.value
        /\ pc' = "page"
        /\ nodeFilter' = [ nodeFilter EXCEPT !.value = nodeId ]
        /\ filterByNode(nodeId, neighborDepth)
        /\ UNCHANGED << selectedDatasets, mergedData, fullGraphData,
                        excludeOwl, components, stateVars, callVars, queryVars,
                        coverage, selectionChanges, pending, neighborDepth >>

\* the change handler of #ls-neighbor-depth
DepthChange ==
    \E depth \in { 1, 2 } :
        /\ depth # neighborDepth
        /\ pc' = "page"
        /\ neighborDepth' = depth
        /\ IF nodeFilter.value # <<>>
           THEN filterByNode(nodeFilter.value, depth)
           ELSE UNCHANGED << graphData, diagram >>
        /\ UNCHANGED << selectedDatasets, mergedData, fullGraphData,
                        excludeOwl, components, stateVars, callVars, queryVars,
                        coverage, selectionChanges, pending, nodeFilter >>

Next ==
    \/ ChangeSelection
    \/ RenderCloudStart
    \/ RenderCloudFinish
    \/ ToggleExcludeOwl
    \/ FilterByNode
    \/ DepthChange

Spec == Init /\ [][Next]_vars

(***************************************************************************)
(* assignEdgeOffsets called by renderDiagram on the links of graphData     *)
(***************************************************************************)
MaxOffsetRows == 4

\* rows between A and B in both directions and with two properties, and
\* rows between A and C
OffsetRows ==
    { MkRow(uA, p1, uB, "ds1"), MkRow(uA, p2, uB, "ds1"),
      MkRow(uB, p1, uA, "ds1"), MkRow(uA, p1, uC, "ds1"),
      MkRow(uC, p1, uA, "ds1") }

InitOffsets ==
    /\ pc = "links"
    /\ ret = NoRet
    /\ mergedData \in SeqsUpTo(OffsetRows, MaxOffsetRows)
    /\ selectedDatasets = << "ds1" >>
    /\ excludeOwl = FALSE
    /\ fullGraphData = buildGraphData(mergedData, FALSE)
    /\ graphData = fullGraphData
    /\ components = <<>>
    /\ StateDefaults
    /\ QueryDefaults
    /\ CloudDefaults

\* D3DiagramUtils.assignEdgeOffsets(links) in renderDiagram: the fields are
\* written into the link objects, which graphData and fullGraphData share
AssignEdgeOffsets ==
    /\ pc' = "assignEdgeOffsets"
    /\ graphData' = [ graphData EXCEPT !.links = assignEdgeOffsets(@) ]
    /\ fullGraphData' = [ fullGraphData EXCEPT !.links = assignEdgeOffsets(@) ]
    /\ UNCHANGED << selectedDatasets, mergedData, excludeOwl, components,
                    stateVars, callVars, queryVars, cloudVars >>

NextOffsets == AssignEdgeOffsets

SpecOffsets == InitOffsets /\ [][NextOffsets]_vars

(***************************************************************************)
(* findPath, findAllPaths and expandPathToEdgePaths called on graphs that  *)
(* buildGraphData made                                                     *)
(***************************************************************************)
MaxPathRows == 3
MaxNodePath == 3
MaxMaxPaths == 2
MaxMaxDepth == 3

\* rows over three classes: parallel properties, an edge against the
\* direction of another, a triangle
PathRows ==
    { MkRow(uA, p1, uB, "ds1"), MkRow(uA, p2, uB, "ds1"),
      MkRow(uB, p1, uA, "ds1"), MkRow(uB, p1, uC, "ds1"),
      MkRow(uC, p1, uA, "ds1") }

\* the ids a caller can pass: the rendered classes and one that is not there
CallIds(g) == NodeIds(g) \cup { uD }

InitPaths ==
    /\ pc = "graph"
    /\ ret = NoRet
    /\ mergedData \in SeqsUpTo(PathRows, MaxPathRows)
    /\ selectedDatasets = << "ds1" >>
    /\ excludeOwl = FALSE
    /\ fullGraphData = buildGraphData(mergedData, FALSE)
    /\ graphData = fullGraphData
    /\ components = <<>>
    /\ StateDefaults
    /\ QueryDefaults
    /\ CloudDefaults

FindPath ==
    \E startId \in CallIds(graphData), endId \in CallIds(graphData) :
        /\ pc' = "findPath"
        /\ ret' = [ fn |-> "findPath", startId |-> startId, endId |-> endId,
                    value |-> findPath(graphData, startId, endId) ]
        /\ UNCHANGED << graphVars, stateVars, queryVars, cloudVars >>

FindAllPaths ==
    \E startId \in CallIds(graphData), endId \in CallIds(graphData),
       maxPaths \in 1..MaxMaxPaths, maxDepth \in 1..MaxMaxDepth :
        LET run == dfsRun(graphData, startId, endId, maxPaths, maxDepth)
        IN  /\ pc' = "findAllPaths"
            /\ ret' = [ fn |-> "findAllPaths", startId |-> startId,
                        endId |-> endId, maxPaths |-> maxPaths,
                        maxDepth |-> maxDepth, value |-> run.allPaths,
                        explored |-> run.explored ]
            /\ UNCHANGED << graphVars, stateVars, queryVars, cloudVars >>

ExpandPathToEdgePaths ==
    \E nodePath \in SeqsUpTo(NodeIds(graphData), MaxNodePath) :
        /\ pc' = "expandPathToEdgePaths"
        /\ ret' = [ fn |-> "expandPathToEdgePaths", nodePath |-> nodePath,
                    value |-> expandPathToEdgePaths(graphData, nodePath) ]
        /\ UNCHANGED << graphVars, stateVars, queryVars, cloudVars >>

NextPaths == FindPath \/ FindAllPaths \/ ExpandPathToEdgePaths

SpecPaths == InitPaths /\ [][NextPaths]_vars

(***************************************************************************)
(* Claims                                                                  *)
(***************************************************************************)
rowKept(row) ==
    /\ ~isExcludedNode(rowSubjectUri(row), excludeOwl)
    /\ ~isExcludedNode(rowObjectUri(row), excludeOwl)

LinksOf(s, p, o) ==
    { k \in DOMAIN fullGraphData.links :
        /\ fullGraphData.links[k].source = s
        /\ fullGraphData.links[k].target = o
        /\ fullGraphData.links[k].property = p }

RowsOf(s, p, o) ==
    { k \in DOMAIN mergedData :
        /\ rowSubjectUri(mergedData[k]) = s
        /\ rowObjectUri(mergedData[k]) = o
        /\ rowPropertyUri(mergedData[k]) = p }

\* what edge identity asks of two rows r, q with the same subject and object
EdgeIdentityFor(r, q) ==
    LET s == rowSubjectUri(r)
        o == rowObjectUri(r)
    IN  IF rowPropertyUri(r) # rowPropertyUri(q)
        THEN /\ Cardinality(LinksOf(s, rowPropertyUri(r), o)) = 1
             /\ Cardinality(LinksOf(s, rowPropertyUri(q), o)) = 1
        ELSE /\ Cardinality(LinksOf(s, rowPropertyUri(r), o)) = 1
             /\ \A k \in LinksOf(s, rowPropertyUri(r), o) :
                    Range(fullGraphData.links[k].datasets) =
                        { mergedData[j].source_dataset :
                            j \in RowsOf(s, rowPropertyUri(r), o) }

\* C2 as stated: in the graph buildGraphData returns, any two non-excluded
\* rows with the same (subject, object) and different property give two
\* distinct edges, and rows with the same (subject, object, property) give
\* exactly one edge that carries the datasets of all of them.
C2_EdgeIdentityAsStated ==
    pc # "input" =>
        \A i, j \in DOMAIN mergedData :
            ( /\ rowKept(mergedData[i]) /\ rowKept(mergedData[j])
              /\ rowSubjectUri(mergedData[i]) = rowSubjectUri(mergedData[j])
              /\ rowObjectUri(mergedData[i]) = rowObjectUri(mergedData[j]) )
            => EdgeIdentityFor(mergedData[i], mergedData[j])

\* C2 amended: the same, for rows whose subject differs from their object
\* (a row with subject = object creates no edge at all).
C2_EdgeIdentity ==
    pc # "input" =>
        \A i, j \in DOMAIN mergedData :
            ( /\ rowKept(mergedData[i]) /\ rowKept(mergedData[j])
              /\ rowSubjectUri(mergedData[i]) = rowSubjectUri(mergedData[j])
              /\ rowObjectUri(mergedData[i]) = rowObjectUri(mergedData[j])
              /\ rowSubjectUri(mergedData[i]) # rowObjectUri(mergedData[i]) )
            => EdgeIdentityFor(mergedData[i], mergedData[j])

C2_Witness ==
    /\ pc = "built"
    /\ Len(mergedData) = 2
    /\ rowKept(mergedData[1]) /\ rowKept(mergedData[2])
    /\ rowSubjectUri(mergedData[1]) = rowSubjectUri(mergedData[2])
    /\ rowObjectUri(mergedData[1]) = rowObjectUri(mergedData[2])
    /\ rowSubjectUri(mergedData[1]) # rowObjectUri(mergedData[1])
    /\ rowPropertyUri(mergedData[1]) # rowPropertyUri(mergedData[2])
    /\ Len(fullGraphData.links) = 2

\* C3 as stated: once removePath has emptied paths, the DiagramState equals
\* a freshly constructed one (and the state after clearPaths): nextColorIndex
\* is 0 and both highlight maps are empty.
C3_RemoveUntilEmptyIsFresh ==
    (pc = "removePath" /\ paths = <<>>) =>
        /\ nextColorIndex = 0
        /\ highlightedNodes = <<>>
        /\ highlightedEdges = <<>>

\* C15: addPathGroup on a non-empty group appends all its paths, in input
\* order, with one shared colorIndex equal to the next unused colour index
\* (which no path present at the call carries), pathNumber 1..n and
\* totalPaths = n, and returns that index
C15_GroupSharesFreshColour ==
    [][ ( pc' = "addPathGroup" /\ ret'.pathDataArray # <<>> )
        => LET group == ret'.pathDataArray
               n     == Len(group)
               old   == Len(paths)
           IN  /\ Len(paths') = old + n
               /\ SubSeq(paths', 1, old) = paths
               /\ ret'.value = nextColorIndex
               /\ nextColorIndex' = nextColorIndex + 1
               /\ \A j \in DOMAIN paths : paths[j].colorIndex # ret'.value
               /\ \A i \in 1..n :
                     /\ paths'[old + i].colorIndex = ret'.value
                     /\ paths'[old + i].pathNumber = i
                     /\ paths'[old + i].totalPaths = n
                     /\ paths'[old + i].path = group[i].path
                     /\ paths'[old + i].edges = group[i].edges ]_vars

\* a group of two was added next to a path of an earlier group
C15_Witness ==
    /\ pc = "addPathGroup"
    /\ Len(ret.pathDataArray) = 2
    /\ ret.value = 1
    /\ Len(paths) = 3
    /\ paths[1].colorIndex = 0
    /\ paths[2].colorIndex = 1 /\ paths[2].pathNumber = 1
    /\ paths[3].colorIndex = 1 /\ paths[3].pathNumber = 2
    /\ paths[3].totalPaths = 2

PathsWith(n) == { k \in DOMAIN paths : n \in Range(paths[k].path) }

FirstPathWith(n) ==
    CHOOSE k \in PathsWith(n) : \A j \in PathsWith(n) : k <= j

EdgeKeysOf(k) ==
    UNION { { pairKey(paths[k].path[i], paths[k].path[i + 1]),
              pairKey(paths[k].path[i + 1], paths[k].path[i]) }
            \cup ( IF i \in DOMAIN paths[k].edges
                      /\ paths[k].edges[i].property # <<>>
                   THEN { propKey(paths[k].path[i], paths[k].path[i + 1],
                                  paths[k].edges[i].property),
                          propKey(paths[k].path[i + 1], paths[k].path[i],
                                  paths[k].edges[i].property) }
                   ELSE {} )
          : i \in 1..(Len(paths[k].path) - 1) }

LastPathWithKey(key) ==
    CHOOSE k \in DOMAIN paths :
        /\ key \in EdgeKeysOf(k)
        /\ \A j \in DOMAIN paths : key \in EdgeKeysOf(j) => j <= k

\* C4: after every DiagramState mutation the highlight maps are the maps
\* derived from paths alone: a node is highlighted iff some path holds it,
\* with the colour of the first such path and isStart iff it is that path's
\* first node; an edge key is highlighted iff some path sets it; and
\* rebuilding from the unchanged paths gives the very same maps.
C4_HighlightsDerivedFromPaths ==
    /\ MapKeys(highlightedNodes) =
           UNION { Range(paths[k].path) : k \in DOMAIN paths }
    /\ \A i, j \in DOMAIN highlightedNodes :
           highlightedNodes[i].key = highlightedNodes[j].key => i = j
    /\ \A n \in MapKeys(highlightedNodes) :
           MapGet(highlightedNodes, n) =
               [ color |-> getPathColor(paths[FirstPathWith(n)].colorIndex),
                 isStart |-> (paths[FirstPathWith(n)].path[1] = n) ]
    /\ MapKeys(highlightedEdges) =
           UNION { EdgeKeysOf(k) : k \in DOMAIN paths }
    /\ \A key \in MapKeys(highlightedEdges) :
           MapGet(highlightedEdges, key) =
               [ color |-> getPathColor(paths[LastPathWithKey(key)].colorIndex) ]
    /\ rebuildHighlightMaps(paths) =
           [ nodes |-> highlightedNodes, edges |-> highlightedEdges ]

C4_Witness ==
    /\ pc = "removePath"
    /\ \E j, k \in DOMAIN paths :
          /\ j < k
          /\ paths[j].colorIndex # paths[k].colorIndex
          /\ uA \in Range(paths[j].path) /\ uA \in Range(paths[k].path)
          /\ paths[j].path[1] # uA /\ paths[k].path[1] = uA
          /\ FirstPathWith(uA) = j
          /\ MapGet(highlightedNodes, uA).isStart = FALSE

GraphItems(g) ==
    { g.nodes[i].datasets : i \in DOMAIN g.nodes }
        \cup { g.links[i].datasets : i \in DOMAIN g.links }

CoOccur(g, a, b) ==
    \E ds \in GraphItems(g) : a \in Range(ds) /\ b \in Range(ds)

\* the selected datasets joined to those of S by a chain of selected datasets
\* that pairwise co-occur on a node or a link
RECURSIVE ChainFrom(_, _, _)
ChainFrom(g, sel, S) ==
    LET T == S \cup { b \in sel : \E a \in S : CoOccur(g, a, b) }
    IN  IF T = S THEN S ELSE ChainFrom(g, sel, T)

\* C10: getDatasetComponents returns a partition of the selected datasets;
\* two of them share a set iff a chain of selected datasets, pairwise
\* co-occurring on a node or link, joins them; two selected datasets that
\* share nothing come back as two singletons.
C10_ComponentsPartition ==
    pc = "components" =>
        LET sel == Range(selectedDatasets)
        IN  /\ \A k \in DOMAIN components : Range(components[k]) \subseteq sel
            /\ \A d \in sel :
                   Cardinality({ k \in DOMAIN components :
                                   d \in Range(components[k]) }) = 1
            /\ \A a, b \in sel :
                   ( \E k \in DOMAIN components :
                        a \in Range(components[k]) /\ b \in Range(components[k]) )
                   <=> b \in ChainFrom(fullGraphData, sel, { a })
            /\ ( /\ Len(selectedDatasets) = 2
                 /\ ~CoOccur(fullGraphData, selectedDatasets[1],
                             selectedDatasets[2]) )
               => components = << << selectedDatasets[1] >>,
                                  << selectedDatasets[2] >> >>

C10_Witness ==
    /\ pc = "components"
    /\ selectedDatasets = << "ds1", "ds2", "ds3" >>
    /\ ~CoOccur(fullGraphData, "ds1", "ds3")
    /\ Len(components) = 1
    /\ Len(components[1]) = 3

\* C14: in every graph buildGraphData returns, the source and the target of
\* each link are ids of nodes of that graph, no link has source equal to
\* target, and a row with subject = object whose class is not excluded
\* still has its class among the nodes
C14_LinksBetweenNodes ==
    pc # "input" =>
        LET g == fullGraphData
        IN  /\ \A k \in DOMAIN g.links :
                  /\ g.links[k].source \in NodeIds(g)
                  /\ g.links[k].target \in NodeIds(g)
                  /\ g.links[k].source # g.links[k].target
            /\ \A i \in DOMAIN mergedData :
                  ( /\ rowSubjectUri(mergedData[i]) = rowObjectUri(mergedData[i])
                    /\ rowKept(mergedData[i]) )
                  => rowSubjectUri(mergedData[i]) \in NodeIds(g)

\* a self-referencing row next to a row towards an excluded class: the class
\* is a node, nothing links it
C14_Witness ==
    /\ pc = "built"
    /\ excludeOwl
    /\ Len(mergedData) = 2
    /\ rowSubjectUri(mergedData[1]) = uA /\ rowObjectUri(mergedData[1]) = uA
    /\ rowSubjectUri(mergedData[2]) = uA /\ rowObjectUri(mergedData[2]) = uT
    /\ NodeIds(fullGraphData) = { uA }
    /\ fullGraphData.links = <<>>

(***************************************************************************)
(* Claims about generateSparqlFromPaths                                    *)
(***************************************************************************)
\* the variable the query gave a node while compiling one path
VarOfIn(q, pathIdx, nodeId) ==
    LET a == CHOOSE a \in Range(q.assigned) :
                 a.pathIdx = pathIdx /\ a.nodeId = nodeId
    IN  a.var

\* the patterns of the query that stand in the group of one endpoint and graph
PatternsAt(q, endpoint, graph) ==
    UNION { UNION { Range(b.groups[j].patterns) :
                      j \in { i \in DOMAIN b.groups :
                                b.groups[i].graph = graph } } :
              b \in { c \in Range(q.where) : c.endpoint = endpoint } }

\* the triple of one consecutive pair has the given nodes as subject and object
EmitsTriple(q, st, subjId, objId) ==
    LET subjVar == VarOfIn(q, st.pathIdx, subjId)
        objVar  == VarOfIn(q, st.pathIdx, objId)
        pred    == predSparqlOf(st.edge, st.pathIdx, st.i)
    IN  /\ st.pattern = relPattern(subjVar, pred, objVar)
        /\ st.subjNodeId = subjId
        /\ st.objNodeId = objId
        /\ st.pattern \in PatternsAt(q, st.endpoint, st.graph)

\* C1: in the query shown in the modal, every consecutive pair (from, to) of
\* every accumulated path whose edge is stored with source = to and
\* target = from is compiled to the triple whose subject is the variable of
\* `to` and whose object is the variable of `from`, the subject and object
\* being the nodes `to` and `from` and not the other way round; a pair whose
\* edge is stored with source = from and target = to is compiled with `from`
\* as subject and `to` as object.
C1_Directionality ==
    pc = "modal" =>
        \A k \in DOMAIN query.steps :
            LET st == query.steps[k]
            IN  /\ ( st.edge.source = st.to /\ st.edge.target = st.from )
                       => EmitsTriple(query, st, st.to, st.from)
                /\ ( st.edge.source = st.from /\ st.edge.target = st.to )
                       => EmitsTriple(query, st, st.from, st.to)

\* a query is shown that compiled a pair walked against its stored edge and,
\* in the same query, a pair walked along its stored edge
C1_Witness ==
    /\ pc = "modal"
    /\ \E k \in DOMAIN query.steps :
          /\ query.steps[k].stored
          /\ query.steps[k].edge.source = query.steps[k].to
          /\ query.steps[k].edge.target = query.steps[k].from
    /\ \E k \in DOMAIN query.steps :
          /\ query.steps[k].edge.source = query.steps[k].from
          /\ query.steps[k].edge.target = query.steps[k].to

\* C5: in every query produced, the patterns of a named endpoint stand bare
\* in WHERE exactly when that endpoint is the primary endpoint (the first
\* endpoint in selection order, which openSparqlModal stores and the query is
\* sent to); the patterns of every other endpoint stand in a SERVICE block of
\* that endpoint.
C5_BareIsPrimaryEndpoint ==
    pc = "modal" =>
        \A b \in Range(query.where) :
            b.endpoint # "" =>
                /\ ( b.service = "" ) <=> ( b.endpoint = primaryEndpoint )
                /\ b.service # "" => b.service = b.endpoint

\* C6: in every query produced, a node has one variable: whatever paths it
\* occurs in, it is bound to the same variable.
C6_OneVariablePerNode ==
    pc = "modal" =>
        \A a \in Range(query.assigned) : \A b \in Range(query.assigned) :
            a.nodeId = b.nodeId => a.var = b.var

\* C7: in every query produced, two different nodes never have the same
\* variable name.
C7_DistinctNodesDistinctVariables ==
    pc = "modal" =>
        \A a \in Range(query.assigned) : \A b \in Range(query.assigned) :
            a.nodeId # b.nodeId => a.var # b.var

\* the named endpoints the patterns of the query were put on
EndpointsOf(q) == { q.steps[k].endpoint : k \in DOMAIN q.steps } \ { "" }

\* the SERVICE blocks of the query
ServiceBlocks(q) == { k \in DOMAIN q.where : q.where[k].service # "" }

\* the number of SERVICE blocks is the number of named endpoints less one
ServiceCountFor(q) ==
    EndpointsOf(q) # {}
    => Cardinality(ServiceBlocks(q)) = Cardinality(EndpointsOf(q)) - 1

\* C16: when the patterns of the accumulated paths fall on m >= 1 distinct
\* endpoints, the primary endpoint among them, the query has exactly m - 1
\* SERVICE blocks, one for each endpoint other than the primary endpoint,
\* and the patterns of the primary endpoint stand outside any SERVICE block
C16_ServicePerNonPrimaryEndpoint ==
    ( pc = "modal" /\ primaryEndpoint \in EndpointsOf(query) )
    => /\ ServiceCountFor(query)
       /\ { query.where[k].service : k \in ServiceBlocks(query) }
             = EndpointsOf(query) \ { primaryEndpoint }
       /\ \A k \in DOMAIN query.where :
             query.where[k].endpoint = primaryEndpoint
             => query.where[k].service = ""

\* the patterns of the query in the scope of one endpoint and graph, in the
\* order of the text
ScopePatterns(q, endpoint, graph) ==
    LET k == CHOOSE k \in DOMAIN q.where :
                 /\ q.where[k].endpoint = endpoint
                 /\ \E j \in DOMAIN q.where[k].groups :
                       q.where[k].groups[j].graph = graph
        j == CHOOSE j \in DOMAIN q.where[k].groups :
                 q.where[k].groups[j].graph = graph
    IN  q.where[k].groups[j].patterns

Precedes(seq, x, y) ==
    \E i, j \in DOMAIN seq : seq[i] = x /\ seq[j] = y /\ i < j

\* the type pattern of a node of a compiled pair stands before the pair's
\* triple in the scope of the triple
TypeBeforeTriple(q, st, nodeId) ==
    Precedes(ScopePatterns(q, st.endpoint, st.graph),
             typePattern(VarOfIn(q, st.pathIdx, nodeId), nodeId),
             st.pattern)

\* the one accumulated path is A -p1-> B, its dataset has an endpoint and no
\* named graph
SinglePathAB ==
    /\ Len(allPaths) = 1
    /\ allPaths[1].path = << uA, uB >>
    /\ Len(allPaths[1].edges) = 1
    /\ allPaths[1].edges[1].source = uA
    /\ allPaths[1].edges[1].target = uB
    /\ allPaths[1].edges[1].property = p1
    /\ Len(allPaths[1].edges[1].datasets) > 0
    /\ LET ds == allPaths[1].edges[1].datasets[1]
       IN  /\ ds \in DOMAIN sourcesData
           /\ sourcesData[ds].endpointUrl # ""
           /\ ~sourcesData[ds].useGraph

\* C17: compiling the single path A -p1-> B, its dataset on one endpoint
\* without named graph, with requireType yields SELECT DISTINCT ?a ?b, whose
\* WHERE holds in this order `?a a <A> .`, `?b a <B> .`, `?a <p1> ?b .` with
\* no SERVICE and no GRAPH wrapper, then LIMIT 100; in every query made with
\* requireType the type patterns of both nodes of a pair stand before the
\* pair's triple in the same scope
C17_TypePatternsFirst ==
    ( pc = "modal" /\ requireType )
    => /\ SinglePathAB
          => /\ ~query.sentinel
             /\ query.select = << << "a" >>, << "b" >> >>
             /\ Len(query.where) = 1
             /\ query.where[1].service = ""
             /\ Len(query.where[1].groups) = 1
             /\ query.where[1].groups[1].graph = ""
             /\ query.where[1].groups[1].patterns =
                  << << "?","a"," ","a"," ","<","e","/","A",">"," ","." >>,
                     << "?","b"," ","a"," ","<","e","/","B",">"," ","." >>,
                     << "?","a"," ","<","e","/","p","1",">"," ","?","b",
                        " ","." >> >>
             /\ query.limit = 100
       /\ \A k \in DOMAIN query.steps :
             /\ TypeBeforeTriple(query, query.steps[k], query.steps[k].from)
             /\ TypeBeforeTriple(query, query.steps[k], query.steps[k].to)

\* the query of the single path A -p1-> B is shown
C17_Witness ==
    /\ pc = "modal"
    /\ requireType
    /\ SinglePathAB
    /\ Len(query.steps) = 1

\* C19: with no accumulated path generateSparqlFromPaths returns the
\* '# No paths selected' comment and no SELECT query, whether requireType is
\* set or not
C19_NoPathsSentinel ==
    ( pc = "modal" /\ allPaths = <<>> )
    => /\ query.sentinel
       /\ query.select = <<>>
       /\ query.where = <<>>
       /\ query.limit = 0
       /\ query = generateSparqlFromPaths(<<>>, graphData, sourcesData,
                                          primaryEndpoint, ~requireType)

\* the modal was opened on an empty path list, the type box unchecked
C19_Witness ==
    /\ pc = "modal"
    /\ allPaths = <<>>
    /\ ~requireType
    /\ query.sentinel

\* C20: every element of the accumulated path list has a node sequence of
\* at least two nodes and an edges array of length path.length - 1 whose
\* i-th edge is the link of the graph used between node i and node i+1
C20_PathsCarryTheirEdges ==
    \A k \in DOMAIN allPaths :
        /\ Len(allPaths[k].path) >= 2
        /\ Len(allPaths[k].edges) = Len(allPaths[k].path) - 1
        /\ \A i \in DOMAIN allPaths[k].edges :
              /\ allPaths[k].edges[i] \in Range(graphData.links)
              /\ { allPaths[k].edges[i].source, allPaths[k].edges[i].target }
                   = { allPaths[k].path[i], allPaths[k].path[i + 1] }

(***************************************************************************)
(* Claims about the cloud page                                             *)
(***************************************************************************)
\* the nodes and links of a graph
ItemsOf(g) == Range(g.nodes) \cup Range(g.links)

\* C8: whenever renderCloud finds that the selected datasets fall into more
\* than one component, the container shows the graph of a largest component
\* (all of the nodes and links of its datasets and no others) and the
\* message names every selected dataset outside that component; so of two
\* datasets that share nothing exactly one is drawn and the other is named.
C8_LargestShownRemainderNamed ==
    ( pc = "renderCloud" /\ Len(components) > 1 ) =>
        \E k \in DOMAIN components :
            /\ \A j \in DOMAIN components :
                  Len(components[j]) <= Len(components[k])
            /\ diagram.kind = "graph"
            /\ graphData = filterToDatasets(fullGraphData, components[k])
            /\ Range(diagram.names)
                  = Range(selectedDatasets) \ Range(components[k])

\* the datasets whose rows are loaded
LoadedDatasets == { mergedData[i].source_dataset : i \in DOMAIN mergedData }

\* C9: whenever the container shows the graph loaded for the current
\* selection and that selection falls into more than one component, all the
\* nodes and links of graphData belong to one and the same component.
C9_OneComponentShown ==
    LET comps == getDatasetComponents(fullGraphData, selectedDatasets)
    IN  ( /\ diagram.kind = "graph"
          /\ LoadedDatasets = Range(selectedDatasets)
          /\ Len(comps) > 1 ) =>
            \E k \in DOMAIN comps :
                \A item \in ItemsOf(graphData) :
                    someIn(item.datasets, comps[k])


(***************************************************************************)
(* Claims about findPath, findAllPaths and expandPathToEdgePaths           *)
(***************************************************************************)
\* the links of g joining a and b in one direction or the other
LinksJoining(g, a, b) ==
    { j \in DOMAIN g.links : { g.links[j].source, g.links[j].target } = { a, b } }

PairCount(g, nodePath, i) ==
    Cardinality(LinksJoining(g, nodePath[i], nodePath[i + 1]))

RECURSIVE ProductOfCounts(_, _, _)
ProductOfCounts(g, nodePath, i) ==
    IF i > Len(nodePath) - 1 THEN 1
    ELSE PairCount(g, nodePath, i) * ProductOfCounts(g, nodePath, i + 1)

\* every consecutive pair of nodePath is joined by at least one link
EveryPairJoined(g, nodePath) ==
    /\ Len(nodePath) >= 2
    /\ \A i \in 1..(Len(nodePath) - 1) : PairCount(g, nodePath, i) >= 1

ScenarioParallelRows ==
    << MkRow(uA, p1, uB, "ds1"), MkRow(uA, p2, uB, "ds1") >>

\* C11: for a node path of length >= 2 whose i-th consecutive pair is joined
\* by k_i >= 1 links (either direction), expandPathToEdgePaths returns
\* exactly k_1 * ... * k_(n-1) edge-paths, pairwise distinct, each with the
\* input node sequence and path.length - 1 edges, the i-th edge being a link
\* of the graph that joins node i and node i+1; on the graph of the rows
\* (A,p1,B),(A,p2,B) findPath(A,B) is [A,B] and its expansion has 2 edge-paths
C11_ExpansionIsProduct ==
    /\ ( ret.fn = "expandPathToEdgePaths"
         /\ EveryPairJoined(graphData, ret.nodePath) )
       => LET out == ret.value
              n   == Len(ret.nodePath)
          IN  /\ Len(out) = ProductOfCounts(graphData, ret.nodePath, 1)
              /\ \A a, b \in DOMAIN out : a # b => out[a] # out[b]
              /\ \A a \in DOMAIN out :
                    /\ out[a].nodes = ret.nodePath
                    /\ Len(out[a].edges) = n - 1
                    /\ \A i \in 1..(n - 1) :
                          /\ out[a].edges[i] \in Range(graphData.links)
                          /\ { out[a].edges[i].source, out[a].edges[i].target }
                               = { ret.nodePath[i], ret.nodePath[i + 1] }
    /\ ( mergedData = ScenarioParallelRows /\ ret.fn = "findPath"
         /\ ret.startId = uA /\ ret.endId = uB )
       => ret.value = << uA, uB >>
    /\ ( mergedData = ScenarioParallelRows /\ ret.fn = "expandPathToEdgePaths"
         /\ ret.nodePath = << uA, uB >> )
       => Len(ret.value) = 2

\* a three-node path whose first pair has two links, taken partly against
\* the direction of its links
C11_Witness ==
    /\ ret.fn = "expandPathToEdgePaths"
    /\ ret.nodePath = << uC, uB, uA >>
    /\ EveryPairJoined(graphData, ret.nodePath)
    /\ PairCount(graphData, ret.nodePath, 2) = 2
    /\ Len(ret.value) = 2


\* the nodes one link away from n, in either direction
LinkedTo(g, n) ==
    { g.links[j].target : j \in { i \in DOMAIN g.links : g.links[i].source = n } }
      \cup
    { g.links[j].source : j \in { i \in DOMAIN g.links : g.links[i].target = n } }

\* the nodes at most k links away from a node of S
RECURSIVE Within(_, _, _)
Within(g, S, k) ==
    IF k = 0 THEN S
    ELSE Within(g, S \cup UNION { LinkedTo(g, n) : n \in S }, k - 1)

ConnectedIn(g, a, b) == b \in Within(g, { a }, Len(g.links))

\* a walk of the undirected graph: consecutive nodes joined by a link
IsWalk(g, path) ==
    \A i \in 1..(Len(path) - 1) : path[i + 1] \in LinkedTo(g, path[i])

\* C12: findPath(start, end) returns a node sequence that begins with start,
\* ends with end, joins consecutive nodes by a link taken in either
\* direction, and has the least number of nodes among such sequences; it
\* returns null (here <<>>) exactly when start and end are not connected in
\* the undirected graph; a repeated call on the unchanged graph returns the
\* same sequence
C12_ShortestPath ==
    ret.fn = "findPath"
    => LET g == graphData
           path == ret.value
       IN  /\ (path = <<>>) <=> ~ConnectedIn(g, ret.startId, ret.endId)
           /\ path # <<>>
              => /\ path[1] = ret.startId
                 /\ path[Len(path)] = ret.endId
                 /\ IsWalk(g, path)
                 /\ \A k \in 0..(Len(path) - 2) :
                       ret.endId \notin Within(g, { ret.startId }, k)
           /\ findPath(g, ret.startId, ret.endId) = path

\* a triangle: the direct link is taken, not the way round
C12_Witness ==
    /\ ret.fn = "findPath"
    /\ mergedData = << MkRow(uA, p1, uB, "ds1"), MkRow(uB, p1, uC, "ds1"),
                       MkRow(uC, p1, uA, "ds1") >>
    /\ ret.startId = uA
    /\ ret.endId = uC
    /\ ret.value = << uA, uC >>


IsSimple(path) ==
    \A i, j \in DOMAIN path : i # j => path[i] # path[j]

\* C13: for every graph and all maxPaths >= 1, maxDepth >= 1, findAllPaths
\* returns (the call ends) at most maxPaths paths, each a simple path from
\* start to end along the undirected adjacency with at most maxDepth nodes,
\* and no neighbour is explored once maxPaths paths have been collected
C13_BoundedSearch ==
    ret.fn = "findAllPaths"
    => /\ Len(ret.value) <= ret.maxPaths
       /\ \A a \in DOMAIN ret.value :
             LET path == ret.value[a]
             IN  /\ Len(path) >= 1
                 /\ Len(path) <= ret.maxDepth
                 /\ path[1] = ret.startId
                 /\ path[Len(path)] = ret.endId
                 /\ IsWalk(graphData, path)
                 /\ IsSimple(path)
       /\ \A e \in DOMAIN ret.explored :
             ret.explored[e].collected < ret.maxPaths

\* the search stopped at maxPaths = 1 although a second path exists, and a
\* neighbour was explored on the way
C13_Witness ==
    /\ ret.fn = "findAllPaths"
    /\ ret.maxPaths = 1
    /\ ret.maxDepth = 3
    /\ Len(ret.value) = 1
    /\ Len(ret.value[1]) = 3
    /\ ret.explored # <<>>
    /\ Len(findAllPaths(graphData, ret.startId, ret.endId, 2, 3)) = 2


(***************************************************************************)
(* Claims about assignEdgeOffsets                                          *)
(***************************************************************************)
\* the positions of the links joining the same two nodes as the link at i
SamePairGroup(links, i) ==
    { j \in DOMAIN links :
        { links[j].source, links[j].target }
          = { links[i].source, links[i].target } }

\* C18: assignEdgeOffsets puts two edges into one group exactly when they
\* join the same unordered node pair; in a group of n edges edgeIndex runs
\* over 0..n-1 in the order of the edges, edgeCount is n and edgeOffset is
\* edgeIndex - floor(n / 2), so the offsets within a group are pairwise
\* distinct; a group of three has the offsets -1, 0, 1, also when one of
\* its edges runs the other way
C18_OffsetsPerUnorderedPair ==
    pc = "assignEdgeOffsets" =>
        LET links == graphData.links
        IN  \A i \in DOMAIN links :
                LET group == SamePairGroup(links, i)
                    n     == Cardinality(group)
                IN  /\ links[i].edgeCount = n
                    /\ links[i].edgeIndex
                         = Cardinality({ j \in group : j < i })
                    /\ links[i].edgeOffset = links[i].edgeIndex - ( n \div 2 )
                    /\ \A j \in group \ { i } :
                          links[j].edgeOffset # links[i].edgeOffset
                    /\ n = 3
                       => { links[j].edgeOffset : j \in group } = { -1, 0, 1 }

\* three edges between A and B, one of them from B to A, next to an edge of
\* another pair
C18_Witness ==
    /\ pc = "assignEdgeOffsets"
    /\ Len(graphData.links) = 4
    /\ \E i \in DOMAIN graphData.links :
          /\ graphData.links[i].source = uB
          /\ graphData.links[i].target = uA
          /\ graphData.links[i].edgeCount = 3
          /\ graphData.links[i].edgeOffset = 0
    /\ \E i \in DOMAIN graphData.links :
          /\ graphData.links[i].source = uA
          /\ graphData.links[i].target = uB
          /\ graphData.links[i].edgeOffset = 1
    /\ \E i \in DOMAIN graphData.links : graphData.links[i].edgeCount = 1

(***************************************************************************)
(* Claims about buildGraphData on rows with empty cells, node properties   *)
(* and degrees                                                             *)
(***************************************************************************)
\* the row names its subject and its object
HasIdentity(row) ==
    /\ (row.subject_uri # <<>> \/ row.subject_class # <<>>)
    /\ (row.object_uri # <<>> \/ row.object_class # <<>>)

Unknown == <<"U","n","k","n","o","w","n">>

\* C21: a row with no subject or no object is skipped by buildGraphData: the
\* graph built is the graph built from the other rows alone
C21_RowsMissingIdentitySkipped ==
    pc = "built" =>
        fullGraphData = buildGraphData(SelectSeq(mergedData, HasIdentity),
                                       excludeOwl)

\* a row without subject has been folded and left the placeholder node
C21_PlaceholderNode ==
    /\ pc = "built"
    /\ \E i \in DOMAIN mergedData : ~HasIdentity(mergedData[i])
    /\ HasNode(fullGraphData.nodes, Unknown)

\* the property label buildGraphData computes for a row
rowPropertyLabel(row) == Or(row.property, getLocalName(rowPropertyUri(row)))

\* C22: every label in a node's properties comes from a row in which the
\* node is the subject, so a node seen only as object has no properties
\* (stated for rows that name their subject and object)
C22_PropertiesFromSubjectRows ==
    (pc = "built" /\ \A i \in DOMAIN mergedData : HasIdentity(mergedData[i])) =>
        \A n \in DOMAIN fullGraphData.nodes :
            \A k \in DOMAIN fullGraphData.nodes[n].properties :
                \E i \in DOMAIN mergedData :
                    /\ rowSubjectUri(mergedData[i]) = fullGraphData.nodes[n].id
                    /\ rowPropertyLabel(mergedData[i])
                         = fullGraphData.nodes[n].properties[k]

\* the row reaches the link branch of buildGraphData
rowLinks(row, checked) ==
    addsLink(isExcludedNode(rowSubjectUri(row), checked),
             isExcludedNode(rowObjectUri(row), checked),
             rowSubjectUri(row), rowObjectUri(row))

OutRows(id) ==
    Cardinality({ i \in DOMAIN mergedData :
                    /\ rowLinks(mergedData[i], excludeOwl)
                    /\ rowSubjectUri(mergedData[i]) = id })

InRows(id) ==
    Cardinality({ i \in DOMAIN mergedData :
                    /\ rowLinks(mergedData[i], excludeOwl)
                    /\ rowObjectUri(mergedData[i]) = id })

RECURSIVE SumOut(_, _)
SumOut(nodes, i) ==
    IF i > Len(nodes) THEN 0 ELSE nodes[i].outDegree + SumOut(nodes, i + 1)

RECURSIVE SumIn(_, _)
SumIn(nodes, i) ==
    IF i > Len(nodes) THEN 0 ELSE nodes[i].inDegree + SumIn(nodes, i + 1)

\* C23: outDegree and inDegree count the rows that reached the link branch
\* with the node as source and as target (occurrences, not unique links),
\* degree is their sum, and the out-degrees add up to the in-degrees
C23_DegreesCountRows ==
    pc = "built" =>
        /\ \A n \in DOMAIN fullGraphData.nodes :
              LET node == fullGraphData.nodes[n]
              IN  /\ node.outDegree = OutRows(node.id)
                  /\ node.inDegree = InRows(node.id)
                  /\ node.degree = node.inDegree + node.outDegree
        /\ SumOut(fullGraphData.nodes, 1) = SumIn(fullGraphData.nodes, 1)

\* one link met by two rows: its source has outDegree 2
C23_Witness ==
    /\ pc = "built"
    /\ Len(fullGraphData.links) = 1
    /\ \E n \in DOMAIN fullGraphData.nodes :
          /\ fullGraphData.nodes[n].outDegree = 2
          /\ fullGraphData.nodes[n].id = fullGraphData.links[1].source

(***************************************************************************)
(* Claims about DiagramState.getEdgeHighlight                              *)
(***************************************************************************)
\* some stored path walks between a and b over an edge with this property
PathUses(a, b, property) ==
    \E k \in DOMAIN paths : \E i \in DOMAIN paths[k].edges :
        /\ i < Len(paths[k].path)
        /\ { paths[k].path[i], paths[k].path[i + 1] } = { a, b }
        /\ paths[k].edges[i].property = property

\* C24: a lookup with a property is edge-specific: it returns a highlight
\* when the stored paths use an edge with that property between the two
\* nodes and null when they use only edges with other properties there
C24_EdgeSpecificHighlight ==
    (ret.fn = "getEdgeHighlight" /\ ret.property # <<>>) =>
        /\ PathUses(ret.source, ret.target, ret.property)
              => ret.value # NoHighlight
        /\ ( /\ ~PathUses(ret.source, ret.target, ret.property)
             /\ \E q \in { p1, p2 } : PathUses(ret.source, ret.target, q) )
              => ret.value = NoHighlight

(***************************************************************************)
(* D3DiagramUtils.buildGraphFromCoverage and computeTreeLayout             *)
(* (d3_diagram_utils.js), as SchemaDiagram.renderDiagram calls them        *)
(***************************************************************************)
MaxCoverageRows == 2

uE == <<"e","/","E">>
uF == <<"e","/","F">>
uThing == <<"e","/","T","h","i","n","g">>

\* a parsed line of a coverage CSV; occurrence_count is the text of the cell
MkCoverageRow(s, p, o, count) ==
    [ subject_uri |-> s, subject_class |-> <<>>,
      object_uri |-> o, object_class |-> <<>>,
      property_uri |-> p, property |-> <<>>,
      occurrence_count |-> count ]

digitValue(c) == (CHOOSE i \in DOMAIN DigitChars : DigitChars[i] = c) - 1

\* parseInt on a text of decimal digits
RECURSIVE parseDigits(_, _, _)
parseDigits(s, i, acc) ==
    IF i > Len(s) THEN acc
    ELSE parseDigits(s, i + 1, acc * 10 + digitValue(s[i]))

\* parseInt(row.occurrence_count || 0)
occurrenceOf(row) ==
    IF row.occurrence_count = <<>> THEN 0
    ELSE parseDigits(row.occurrence_count, 1, 0)

\* one step of the stable sort by descending occurrence_count
insertByOccurrence(sorted, row) ==
    LET k == Cardinality({ i \in DOMAIN sorted :
                             occurrenceOf(sorted[i]) >= occurrenceOf(row) })
    IN  SubSeq(sorted, 1, k) \o << row >> \o SubSeq(sorted, k + 1, Len(sorted))

RECURSIVE sortByOccurrence(_, _, _)
sortByOccurrence(rows, i, sorted) ==
    IF i > Len(rows) THEN sorted
    ELSE sortByOccurrence(rows, i + 1, insertByOccurrence(sorted, rows[i]))

\* [...rows].sort(...).slice(0, maxPatterns)
topPatterns(rows, maxPatterns) ==
    LET sorted == sortByOccurrence(rows, 1, <<>>)
    IN  SubSeq(sorted, 1, Min(maxPatterns, Len(sorted)))

\* D3DiagramUtils.isExcludedUri
isExcludedUri(uri, checked) ==
    IF uri = <<>> THEN TRUE
    ELSE IF ~checked THEN FALSE
    ELSE IF \E i \in DOMAIN excludedNamespaces :
                StartsWith(uri, excludedNamespaces[i]) THEN TRUE
    ELSE \E i \in DOMAIN excludedLocalNames :
                LastSegment(uri) = excludedLocalNames[i]

\* D3DiagramUtils.getLocalName: last URI segment, cut to 25 characters
utilsLocalName(uri) ==
    IF uri = <<>> THEN <<"U","n","k","n","o","w","n">>
    ELSE LET local == LastSegment(uri)
         IN  SubSeq(local, 1, Min(25, Len(local)))

\* nodeMap.set on first sight of a uri
coverageNode(nodes, uri, label) ==
    IF HasNode(nodes, uri) THEN nodes
    ELSE Append(nodes, [ id |-> uri, label |-> label, properties |-> <<>>,
                         outDegree |-> 0, inDegree |-> 0 ])

\* `${subjectUri}|||${objectUri}`
coverageLinkKey(subjectUri, objectUri) ==
    subjectUri \o <<"|","|","|">> \o objectUri

\* Array.prototype.join(', ')
RECURSIVE joinComma(_, _)
joinComma(labels, i) ==
    IF i > Len(labels) THEN <<>>
    ELSE IF i = Len(labels) THEN labels[i]
    ELSE labels[i] \o <<",", " ">> \o joinComma(labels, i + 1)

\* one iteration of patterns.forEach; acc = [nodes, links, keys]
coverageRow(acc, row, checked) ==
    LET subjectUri    == rowSubjectUri(row)
        objectUri     == rowObjectUri(row)
        propertyUri   == rowPropertyUri(row)
        subjectLabel  == Or(row.subject_class, utilsLocalName(subjectUri))
        objectLabel   == Or(row.object_class, utilsLocalName(objectUri))
        propertyLabel == Or(row.property, utilsLocalName(propertyUri))
        subjectExcluded == isExcludedUri(subjectUri, checked)
        objectExcluded  == isExcludedUri(objectUri, checked)
        n1 == IF subjectExcluded THEN acc.nodes
              ELSE LET ns == coverageNode(acc.nodes, subjectUri, subjectLabel)
                       i  == NodeIdx(ns, subjectUri)
                   IN  [ ns EXCEPT ![i].properties = SetAdd(@, propertyLabel),
                                   ![i].outDegree = @ + 1 ]
        n2 == IF objectExcluded THEN n1
              ELSE LET ns == coverageNode(n1, objectUri, objectLabel)
                       i  == NodeIdx(ns, objectUri)
                   IN  [ ns EXCEPT ![i].inDegree = @ + 1 ]
    IN  IF ~subjectExcluded /\ ~objectExcluded /\ subjectUri # objectUri
        THEN LET key == coverageLinkKey(subjectUri, objectUri)
                 has == key \in Range(acc.keys)
                 ls  == IF has THEN acc.links
                        ELSE Append(acc.links, [ source |-> subjectUri,
                                                 target |-> objectUri,
                                                 properties |-> <<>> ])
                 ks  == IF has THEN acc.keys ELSE Append(acc.keys, key)
                 k   == CHOOSE j \in DOMAIN ks : ks[j] = key
             IN  [ nodes |-> n2,
                   links |-> [ ls EXCEPT
                                 ![k].properties = SetAdd(@, propertyLabel) ],
                   keys  |-> ks ]
        ELSE [ nodes |-> n2, links |-> acc.links, keys |-> acc.keys ]

RECURSIVE coverageRows(_, _, _, _)
coverageRows(acc, rows, i, checked) ==
    IF i > Len(rows) THEN acc
    ELSE coverageRows(coverageRow(acc, rows[i], checked), rows, i + 1, checked)

\* this.config.maxProperties
maxProperties == 4

buildGraphFromCoverage(rows, maxPatterns, checked) ==
    LET acc == coverageRows([ nodes |-> <<>>, links |-> <<>>, keys |-> <<>> ],
                            topPatterns(rows, maxPatterns), 1, checked)
    IN  [ nodes |-> [ i \in DOMAIN acc.nodes |->
                        [ id |-> acc.nodes[i].id,
                          label |-> acc.nodes[i].label,
                          properties |->
                              SubSeq(acc.nodes[i].properties, 1,
                                     Min(maxProperties,
                                         Len(acc.nodes[i].properties))),
                          outDegree |-> acc.nodes[i].outDegree,
                          inDegree |-> acc.nodes[i].inDegree,
                          degree |-> acc.nodes[i].inDegree
                                        + acc.nodes[i].outDegree ] ],
          links |-> [ i \in DOMAIN acc.links |->
                        [ source |-> acc.links[i].source,
                          target |-> acc.links[i].target,
                          properties |-> acc.links[i].properties,
                          label |-> joinComma(
                              SubSeq(acc.links[i].properties, 1,
                                     Min(2, Len(acc.links[i].properties))),
                              1) ] ] ]

\* outgoing.get(id): the targets of the links leaving a node of the view
RECURSIVE outgoingOf(_, _, _, _)
outgoingOf(nodes, links, id, k) ==
    IF k > Len(links) THEN <<>>
    ELSE IF HasNode(nodes, id) /\ links[k].source = id
         THEN << links[k].target >> \o outgoingOf(nodes, links, id, k + 1)
         ELSE outgoingOf(nodes, links, id, k + 1)

\* incoming.get(id): the sources of the links arriving at a node of the view
RECURSIVE incomingOf(_, _, _, _)
incomingOf(nodes, links, id, k) ==
    IF k > Len(links) THEN <<>>
    ELSE IF HasNode(nodes, id) /\ links[k].target = id
         THEN << links[k].source >> \o incomingOf(nodes, links, id, k + 1)
         ELSE incomingOf(nodes, links, id, k + 1)

\* one step of the stable sort by descending outDegree
insertByOutDegree(sorted, n) ==
    LET k == Cardinality({ i \in DOMAIN sorted :
                             sorted[i].outDegree >= n.outDegree })
    IN  SubSeq(sorted, 1, k) \o << n >> \o SubSeq(sorted, k + 1, Len(sorted))

RECURSIVE sortByOutDegree(_, _, _)
sortByOutDegree(nodes, i, sorted) ==
    IF i > Len(nodes) THEN sorted
    ELSE sortByOutDegree(nodes, i + 1, insertByOutDegree(sorted, nodes[i]))

\* Math.max(1, Math.ceil(nodes.length / 5))
fallbackRootCount(n) == IF (n + 4) \div 5 > 1 THEN (n + 4) \div 5 ELSE 1

\* the roots of the forest, as node ids
treeRoots(nodes, links) ==
    LET noIncoming(n) == Len(incomingOf(nodes, links, n.id, 1)) = 0
        roots  == SelectSeq(nodes, noIncoming)
        sorted == sortByOutDegree(nodes, 1, <<>>)
        picked == IF Len(roots) # 0 THEN roots
                  ELSE SubSeq(sorted, 1,
                              Min(fallbackRootCount(Len(nodes)), Len(sorted)))
    IN  [ i \in DOMAIN picked |-> picked[i].id ]

\* a visited test that never answers yes
seenNever(visited, id) == FALSE

\* if (visited.has(rootId)) return null
seen(visited, id) == id \in visited

\* buildHierarchy(rootId, visited); acc = [visited, entries], an entry being
\* [id, parent, depth] with the entries in the order the objects are made,
\* depth 1 for the children of the virtual root
RECURSIVE buildHierarchy(_, _, _, _, _, _)
RECURSIVE buildChildren(_, _, _, _, _, _, _)
buildHierarchy(nodes, links, rootId, parent, depth, acc) ==
    IF seen(acc.visited, rootId) THEN acc
    ELSE LET visited == acc.visited \cup { rootId }
         IN  IF ~HasNode(nodes, rootId)
             THEN [ visited |-> visited, entries |-> acc.entries ]
             ELSE LET unvisited(childId) == childId \notin visited
                      children ==
                          SelectSeq(outgoingOf(nodes, links, rootId, 1),
                                    unvisited)
                  IN  buildChildren(nodes, links, children, 1, rootId,
                                    depth + 1,
                                    [ visited |-> visited,
                                      entries |-> Append(acc.entries,
                                          [ id |-> rootId, parent |-> parent,
                                            depth |-> depth ]) ])

buildChildren(nodes, links, children, k, parent, depth, acc) ==
    IF k > Len(children) THEN acc
    ELSE buildChildren(nodes, links, children, k + 1, parent, depth,
                       buildHierarchy(nodes, links, children[k], parent,
                                      depth, acc))

\* the id of the virtual root
VirtualRoot == <<"_","_","r","o","o","t","_","_">>

\* roots.map(r => buildHierarchy(r.id, visited))
RECURSIVE buildRoots(_, _, _, _, _)
buildRoots(nodes, links, roots, k, acc) ==
    IF k > Len(roots) THEN acc
    ELSE buildRoots(nodes, links, roots, k + 1,
                    buildHierarchy(nodes, links, roots[k], VirtualRoot, 1,
                                   acc))

\* nodes not visited from any root become children of the virtual root
RECURSIVE addOrphans(_, _, _)
addOrphans(nodes, k, acc) ==
    IF k > Len(nodes) THEN acc
    ELSE IF nodes[k].id \in acc.visited THEN addOrphans(nodes, k + 1, acc)
    ELSE addOrphans(nodes, k + 1,
                    [ visited |-> acc.visited \cup { nodes[k].id },
                      entries |-> Append(acc.entries,
                                         [ id |-> nodes[k].id,
                                           parent |-> VirtualRoot,
                                           depth |-> 1 ]) ])

\* hierarchyData of computeTreeLayout, flattened to its entries
hierarchyData(nodes, links) ==
    addOrphans(nodes, 1,
               buildRoots(nodes, links, treeRoots(nodes, links), 1,
                          [ visited |-> {}, entries |-> <<>> ])).entries

\* node.level = d.depth - 1 for the node of every entry.  node.x and node.y
\* come out of d3.tree() and are not part of the model.
withLevels(nodes, entries) ==
    [ i \in DOMAIN nodes |->
        LET mine == { k \in DOMAIN entries : entries[k].id = nodes[i].id }
        IN  IF mine = {} THEN nodes[i]
            ELSE [ id |-> nodes[i].id, label |-> nodes[i].label,
                   properties |-> nodes[i].properties,
                   outDegree |-> nodes[i].outDegree,
                   inDegree |-> nodes[i].inDegree,
                   degree |-> nodes[i].degree,
                   level |-> entries[CHOOSE k \in mine :
                                       \A j \in mine : j <= k].depth - 1 ] ]

\* rows of one CSV: parallel and antiparallel properties, a self-loop, an
\* excluded class, an empty subject cell, with and without counts
CoverageRows ==
    { MkCoverageRow(so[1], p, so[2], c) :
        so \in { <<uA, uB>>, <<uB, uA>>, <<uA, uA>>, <<uA, uThing>>,
                 << <<>>, uB >> },
        p \in { p1, p2 }, c \in { <<>>, <<"2">> } }

\* a CSV of three two-cycles, two of them with a doubled property, and a
\* CSV of a diamond: their sub-lists give forests of every shape
CycleRows ==
    << MkCoverageRow(uA, p1, uB, <<"9">>), MkCoverageRow(uB, p1, uA, <<"8">>),
       MkCoverageRow(uC, p1, uD, <<"7">>), MkCoverageRow(uC, p2, uD, <<"6">>),
       MkCoverageRow(uD, p1, uC, <<"5">>), MkCoverageRow(uE, p1, uF, <<"4">>),
       MkCoverageRow(uF, p1, uE, <<"3">>), MkCoverageRow(uA, p2, uB, <<"2">>) >>

DiamondRows ==
    << MkCoverageRow(uA, p1, uB, <<"4">>), MkCoverageRow(uA, p1, uC, <<"3">>),
       MkCoverageRow(uB, p1, uC, <<"2">>), MkCoverageRow(uC, p1, uD, <<"1">>),
       MkCoverageRow(uD, p1, uB, <<>>) >>

CoverageInputs ==
    SeqsUpTo(CoverageRows, MaxCoverageRows)
        \cup SubSeqsOf(CycleRows) \cup SubSeqsOf(DiamondRows)

\* new SchemaDiagram(): no graph yet
InitLayout ==
    /\ pc = "constructor"
    /\ ret = NoRet
    /\ GraphDefaults
    /\ StateDefaults
    /\ QueryDefaults
    /\ CloudDefaults

\* this.graphData = D3DiagramUtils.buildGraphFromCoverage(this.coverageData,
\*     { maxPatterns, excludeOwl })
BuildGraphFromCoverage ==
    \E rows \in CoverageInputs : \E maxPatterns \in { 1, 80 } :
    \E checked \in BOOLEAN :
        LET g == buildGraphFromCoverage(rows, maxPatterns, checked)
        IN  /\ pc = "constructor"
            /\ graphData' = g
            /\ excludeOwl' = checked
            /\ ret' = [ fn |-> "buildGraphFromCoverage", rows |-> rows,
                        maxPatterns |-> maxPatterns, value |-> g ]
            /\ pc' = "buildGraphFromCoverage"
            /\ UNCHANGED << selectedDatasets, mergedData, fullGraphData,
                            components, stateVars, queryVars, cloudVars >>

\* D3DiagramUtils.computeHierarchicalLayout(nodes, links, this.config)
ComputeTreeLayout ==
    /\ pc = "buildGraphFromCoverage"
    /\ Len(graphData.nodes) # 0
    /\ LET entries == hierarchyData(graphData.nodes, graphData.links)
       IN  /\ graphData' = [ nodes |-> withLevels(graphData.nodes, entries),
                             links |-> graphData.links ]
           /\ ret' = [ fn |-> "computeTreeLayout",
                       roots |-> treeRoots(graphData.nodes, graphData.links),
                       value |-> entries ]
    /\ pc' = "computeTreeLayout"
    /\ UNCHANGED << selectedDatasets, mergedData, fullGraphData, excludeOwl,
                    components, stateVars, queryVars, cloudVars >>

NextLayout == BuildGraphFromCoverage \/ ComputeTreeLayout

SpecLayout == InitLayout /\ [][NextLayout]_vars

(***************************************************************************)
(* Claims about buildGraphFromCoverage and computeTreeLayout               *)
(***************************************************************************)
\* the retained rows that reach the link branch with this subject and object
LinkingRows(rows, checked, s, o) ==
    { i \in DOMAIN rows :
        /\ rowSubjectUri(rows[i]) = s
        /\ rowObjectUri(rows[i]) = o
        /\ s # o
        /\ ~isExcludedUri(s, checked)
        /\ ~isExcludedUri(o, checked) }

\* C25: buildGraphFromCoverage keeps one link per (source, target, property):
\* between two nodes there are as many links as the retained rows joining
\* them have different properties
C25_LinksDistinctByProperty ==
    ret.fn = "buildGraphFromCoverage" =>
        LET rows == topPatterns(ret.rows, ret.maxPatterns)
        IN  \A s \in { uA, uB, uC } : \A o \in { uA, uB, uC } :
                Cardinality({ k \in DOMAIN ret.value.links :
                                /\ ret.value.links[k].source = s
                                /\ ret.value.links[k].target = o })
                  = Cardinality({ rowPropertyUri(rows[i]) :
                                    i \in LinkingRows(rows, excludeOwl, s, o) })

\* the ids of the nodes of the view
ViewIds == { graphData.nodes[i].id : i \in DOMAIN graphData.nodes }

\* the links of the view that join two of its nodes
ViewLinks ==
    { k \in DOMAIN graphData.links :
        /\ graphData.links[k].source \in ViewIds
        /\ graphData.links[k].target \in ViewIds }

\* the nodes of the view that no link arrives at
NoIncoming ==
    { id \in ViewIds :
        \A k \in DOMAIN graphData.links : graphData.links[k].target # id }

OutDegreeOf(id) ==
    graphData.nodes[CHOOSE i \in DOMAIN graphData.nodes :
                       graphData.nodes[i].id = id].outDegree

\* everything a descent along the links reaches from the ids in S
RECURSIVE Descent(_)
Descent(S) ==
    LET more == S \cup { graphData.links[k].target : k \in
                           { j \in ViewLinks : graphData.links[j].source \in S } }
    IN  IF more = S THEN S ELSE Descent(more)

EntryOf(entries, id) ==
    entries[CHOOSE k \in DOMAIN entries : entries[k].id = id]

\* the top-level entry above an entry of the forest
RECURSIVE TopOf(_, _)
TopOf(entries, id) ==
    IF EntryOf(entries, id).parent = VirtualRoot THEN id
    ELSE TopOf(entries, EntryOf(entries, id).parent)

\* C26: the roots are the nodes without incoming link, or the top
\* max(1, ceil(n/5)) nodes by outDegree when there is none; every node of
\* the view is in the forest exactly once, below the first root whose
\* descent reaches it, every nested entry being an out-neighbour of its
\* parent; nodes no root reaches are top-level entries
C26_ForestCoversView ==
    ret.fn = "computeTreeLayout" =>
        LET entries == ret.value
            roots   == ret.roots
            n       == Len(graphData.nodes)
            reached(id) == { j \in DOMAIN roots : id \in Descent({ roots[j] }) }
        IN  /\ IF NoIncoming # {}
               THEN Range(roots) = NoIncoming
               ELSE /\ Len(roots) = fallbackRootCount(n)
                    /\ Cardinality(Range(roots)) = Len(roots)
                    /\ Range(roots) \subseteq ViewIds
                    /\ \A r \in Range(roots) : \A m \in ViewIds \ Range(roots) :
                           OutDegreeOf(r) >= OutDegreeOf(m)
            /\ \A id \in ViewIds :
                   Cardinality({ k \in DOMAIN entries : entries[k].id = id }) = 1
            /\ \A k \in DOMAIN entries :
                   /\ entries[k].id \in ViewIds
                   /\ entries[k].parent # VirtualRoot =>
                          \E j \in ViewLinks :
                              /\ graphData.links[j].source = entries[k].parent
                              /\ graphData.links[j].target = entries[k].id
                   /\ IF reached(entries[k].id) = {}
                      THEN entries[k].parent = VirtualRoot
                      ELSE TopOf(entries, entries[k].id)
                             = roots[CHOOSE j \in reached(entries[k].id) :
                                       \A i \in reached(entries[k].id) : j <= i]

\* six nodes in cycles: two roots picked by outDegree, each with a child,
\* and a node no root reaches
C26_Witness ==
    /\ ret.fn = "computeTreeLayout"
    /\ NoIncoming = {}
    /\ Len(ret.roots) = 2
    /\ \A j \in DOMAIN ret.roots :
           \E k \in DOMAIN ret.value : ret.value[k].parent = ret.roots[j]
    /\ \E k \in DOMAIN ret.value :
           /\ ret.value[k].parent = VirtualRoot
           /\ ret.value[k].id \notin Range(ret.roots)

\* a diamond: a node two siblings lead to sits under the first of them
C26_WitnessShared ==
    /\ ret.fn = "computeTreeLayout"
    /\ \E k \in DOMAIN ret.value :
           /\ ret.value[k].depth = 3
           /\ \E j \in ViewLinks :
                  /\ graphData.links[j].target = ret.value[k].id
                  /\ \E a \in DOMAIN ret.value :
                         /\ ret.value[a].depth = 1
                         /\ ret.value[a].id = graphData.links[j].source

(***************************************************************************)
(* The cloud page with its path panel: the graph handlers next to the      *)
(* handlers that add and remove paths                                      *)
(***************************************************************************)
\* the page over the coverage files in which ds3 bridges ds1 and ds2, the
\* three datasets behind one endpoint
InitPanel ==
    /\ pc = "page"
    /\ ret = NoRet
    /\ coverage = ( "ds1" :> << MkRow(uA, p1, uB, "ds1") >> )
                    @@ ( "ds2" :> << MkRow(uC, p1, uD, "ds2") >> )
                    @@ ( "ds3" :> << MkRow(uB, p1, uC, "ds3") >> )
    /\ sourcesData = ( "ds1" :> MkSource("ep1", "", FALSE) )
                       @@ ( "ds2" :> MkSource("ep1", "", FALSE) )
                       @@ ( "ds3" :> MkSource("ep1", "", FALSE) )
    /\ selectionChanges = 0
    /\ selectedDatasets = <<>>
    /\ mergedData = <<>>
    /\ fullGraphData = EmptyGraph
    /\ graphData = EmptyGraph
    /\ excludeOwl = FALSE
    /\ components = <<>>
    /\ pending = <<>>
    /\ nodeFilter = EmptyNodeFilter
    /\ neighborDepth = 2
    /\ diagram = EmptyDiagram
    /\ allPaths = <<>>
    /\ pathFindingMode = FALSE
    /\ selectedNodes = <<>>
    /\ primaryEndpoint = ""
    /\ requireType = TRUE
    /\ query = NoQuery
    /\ StateDefaults

MaxPanelPaths == 1

\* the Find Path button with "shortest only" checked
FindShortestFromInputs ==
    \E fromId \in NodeIds(graphData) : \E toId \in NodeIds(graphData) :
        /\ Len(allPaths) < MaxPanelPaths
        /\ findPathFromInputs(fromId, toId, TRUE, 5)

\* #sparql-modal lies over the page: the page's controls are used while it
\* is hidden.  One renderCloud is in flight at a time here.
NextPanel ==
    \/ ( pc # "modal" /\ ChangeSelection )
    \/ ( pc # "modal" /\ pending = <<>> /\ RenderCloudStart )
    \/ ( pc # "modal" /\ RenderCloudFinish )
    \/ ( pc # "modal" /\ ToggleExcludeOwl )
    \/ ( pc # "modal" /\ FilterByNode )
    \/ FindShortestFromInputs
    \/ RemovePathAt
    \/ OpenSparqlModal
    \/ CloseSparqlModal

SpecPanel == InitPanel /\ [][NextPanel]_vars

\* C27: every node id and every edge stored in the accumulated paths exists
\* in the current graphData
C27_PathsWithinGraph ==
    \A k \in DOMAIN allPaths :
        /\ Range(allPaths[k].path) \subseteq NodeIds(graphData)
        /\ Range(allPaths[k].edges) \subseteq Range(graphData.links)

(***************************************************************************)
(* Claims about overlapping renderCloud calls                              *)
(***************************************************************************)
\* a renderCloud call leaves its await in this step and gets to its
\* component analysis
RenderCompletes ==
    /\ Len(pending') = Len(pending) - 1
    /\ pc' = "renderCloud"

\* two renderCloud calls are in flight, the later one called for the current
\* selection and the earlier one for another
TwoInFlight ==
    /\ Len(pending) = 2
    /\ pending[2] = selectedDatasets
    /\ pending[1] # pending[2]

\* C28: of two renderCloud calls in flight, the one that completes computes
\* its components against the selection whose rows it loaded; and when the
\* later call has completed, so that the data on the page are those of the
\* current selection, the completion of the earlier call leaves mergedData,
\* fullGraphData and graphData as they are
C28_LatestSelectionWins ==
    [][ RenderCompletes =>
          /\ TwoInFlight =>
                \E k \in DOMAIN pending :
                    /\ pending' = spliceOut(pending, k - 1)
                    /\ mergedData' = mergeResults(coverage, pending[k])
                    /\ components'
                         = getDatasetComponents(fullGraphData', pending[k])
          /\ ( /\ pc = "renderCloud"
               /\ Len(pending) = 1
               /\ pending[1] # selectedDatasets
               /\ mergedData = mergeResults(coverage, selectedDatasets) )
             => /\ mergedData' = mergedData
                /\ fullGraphData' = fullGraphData
                /\ graphData' = graphData ]_vars

NodeOf(g, id) == g.nodes[CHOOSE i \in DOMAIN g.nodes : g.nodes[i].id = id]

\* C30: the datasets of every link of fullGraphData are datasets of its
\* source node and of its target node, and after renderCloud, filtered to
\* the largest component or not, every link of graphData has its source and
\* its target among the nodes of graphData
C30_LinkDatasetsWithinNodes ==
    /\ \A k \in DOMAIN fullGraphData.links :
          LET l == fullGraphData.links[k]
          IN  /\ l.source \in NodeIds(fullGraphData)
              /\ l.target \in NodeIds(fullGraphData)
              /\ Range(l.datasets)
                   \subseteq Range(NodeOf(fullGraphData, l.source).datasets)
              /\ Range(l.datasets)
                   \subseteq Range(NodeOf(fullGraphData, l.target).datasets)
    /\ pc = "renderCloud" =>
          \A k \in DOMAIN graphData.links :
              /\ graphData.links[k].source \in NodeIds(graphData)
              /\ graphData.links[k].target \in NodeIds(graphData)

\* renderCloud has cut the graph down to the largest component and a link
\* is left
C30_Witness ==
    /\ pc = "renderCloud"
    /\ Len(components) > 1
    /\ Len(graphData.nodes) < Len(fullGraphData.nodes)
    /\ Len(graphData.links) > 0

====
